---- MODULE Spec2Model ----
(***************************************************************************)
(* A model of the crawl_sns crawlers: the numeric parsers, the JSON        *)
(* writer and the CLI commands of main.py, the per-platform collection     *)
(* loops, the login / session control flow under BaseCrawler.crawl, and    *)
(* the payload of the Google Sheets exporter.                              *)
(*                                                                         *)
(* The module holds nine independent state machines, one per part of the   *)
(* program.  Each has its own variables; a specification runs one machine  *)
(* and leaves the variables of the others at their idle values.            *)
(*   SpecParse    the numeric parsers (pure functions on strings)          *)
(*   SpecSave     save_posts_to_file and the threads / linkedin commands   *)
(*   SpecCollect  the collection loops with validity and duplicate checks  *)
(*   SpecCrawl    BaseCrawler.crawl, session restore and login             *)
(*   SpecLoop     the collection loops by their counters, for large targets *)
(*   SpecExport   SheetsExporter.export_posts                              *)
(*   SpecInit     the construction of a crawler from the environment       *)
(*   SpecCount    the count parsers of XCrawler and ThreadsCrawler         *)
(*   SpecInteract the interaction extractors of LinkedIn, X and GeekNews   *)
(***************************************************************************)
EXTENDS Integers, Sequences, FiniteSets, TLC

VARIABLES
    \* ---- SpecParse
    text,        \* the str handed to a parser, as a sequence of characters
    parsed,      \* NoCall, or [fn |-> parser, value |-> the int it returned]
    \* ---- SpecSave
    fsDirs,      \* the directories that exist under the working directory
    fsFiles,     \* the files that exist: path -> the JSON document written
    call,        \* what the one call of the run did (NoRun before it)
    \* ---- SpecCollect
    colCrawler,          \* the platform whose collection loop runs
    target_count,        \* the number of posts asked for
    colPosts,            \* the list collected so far (posts / all_posts)
    extracted_urls,      \* Threads: the ids of the posts in all_posts
    scroll_attempts,     \* scroll attempts made (Threads: scroll_round)
    no_new_posts_count,  \* Threads: consecutive rounds without a new post
    new_posts_count,     \* posts added in the current round
    batchLeft,           \* elements of the current page still to be handled
    colPc,               \* "loop", "element", "done" ("idle" when not running)
    colResult,           \* what the crawler returned, with how it ended
    offered,             \* history: kinds of candidates the page has shown
    \* ---- SpecCrawl
    crawler,             \* the platform of the crawler object
    debug_mode,          \* self.debug_mode
    login_retry_count,   \* self.login_retry_count (Threads, LinkedIn, X)
    has_credentials,     \* username and password are set
    session_file,        \* the session file exists
    is_logged_in,        \* self.is_logged_in
    session_loaded,      \* _load_session returned True
    pc,                  \* where crawl is
    attempt,             \* login attempts begun
    loginLog,            \* history: the steps of the login, in order
    login_returned,      \* what _attempt_login / _login returned ("none" before)
    impl,                \* how _crawl_implementation ended ("none" before)
    pendingExc,          \* the exception on its way out of the try block
    didCollect,          \* the collection loop was entered
    implPosts,           \* what _crawl_implementation returned
    browser,             \* "none", "open", "closed", "close_raised" (close() raised)
    debugWait,           \* how the debug-mode wait for Enter ended
    crawl_result,        \* how crawl ended and the list it returned
    sessionLog,          \* history: what was done with the session file, in order
    \* ---- SpecLoop
    loopCrawler,         \* the platform whose collection loop runs
    loopTarget,          \* target_count
    loopLen,             \* len(posts) / len(all_posts)
    loopScroll,          \* scroll_attempts (Threads: rounds of the for loop done)
    loopEmpty,           \* Threads: no_new_posts_count
    loopIter,            \* history: iterations of the loop begun
    loopWindow,          \* history: did each of the last three rounds add nothing
    loopEmptyTotal,      \* history: rounds that added nothing, in all
    loopEnd,             \* "running", or why the loop was left
    \* ---- SpecExport
    webapp_url,          \* self.webapp_url is set
    expPosts,            \* the posts argument of export_posts
    expPlatform,         \* the platform argument of export_posts
    expPayload,          \* the payload handed to requests.post (NoPayload before)
    expReturn,           \* what export_posts returned ("none" before; "raised")
    expAnswer,           \* how requests.post ended (NoAnswer before)
    \* ---- SpecInit
    newCrawler,          \* the crawler class that is instantiated
    envUsername,         \* os.getenv of the platform's username variable
    envPassword,         \* os.getenv of the platform's password variable
    storedSession,       \* a session file of the platform exists
    constructed,         \* "none", "ok", or the exception __init__ raised
    crawlStarted,        \* crawl was called on the object
    \* ---- SpecInteract
    interCrawler,        \* the platform whose interaction extractor runs
    interactions,        \* the dict the extractor fills: key -> None or a count
    interPhase,          \* which part of the extractor runs ("idle", ..., "done")
    interLeft,           \* elements of the current loop still to be read
    interZero            \* history: a count of 0 was parsed from an element

varsParse == <<text, parsed>>
varsSave == <<fsDirs, fsFiles, call>>
varsCollect == <<colCrawler, target_count, colPosts, extracted_urls, scroll_attempts,
                 no_new_posts_count, new_posts_count, batchLeft, colPc, colResult,
                 offered>>

varsCrawl == <<crawler, debug_mode, login_retry_count, has_credentials, session_file,
               is_logged_in, session_loaded, pc, attempt, loginLog, login_returned,
               impl, pendingExc, didCollect, implPosts, browser, debugWait, crawl_result,
               sessionLog>>
varsLoop == <<loopCrawler, loopTarget, loopLen, loopScroll, loopEmpty, loopIter,
              loopWindow, loopEmptyTotal, loopEnd>>
varsExport == <<webapp_url, expPosts, expPlatform, expPayload, expReturn, expAnswer>>
varsInit == <<newCrawler, envUsername, envPassword, storedSession, constructed,
              crawlStarted>>
varsInter == <<interCrawler, interactions, interPhase, interLeft, interZero>>

vars == <<text, parsed, fsDirs, fsFiles, call, colCrawler, target_count, colPosts,
          extracted_urls, scroll_attempts, no_new_posts_count, new_posts_count,
          batchLeft, colPc, colResult, offered, crawler, debug_mode,
          login_retry_count, has_credentials, session_file, is_logged_in,
          session_loaded, pc, attempt, loginLog, login_returned, impl, pendingExc,
          didCollect, implPosts, browser, debugWait, crawl_result, sessionLog,
          loopCrawler, loopTarget, loopLen, loopScroll, loopEmpty, loopIter,
          loopWindow, loopEmptyTotal, loopEnd,
          webapp_url, expPosts, expPlatform, expPayload, expReturn, expAnswer,
          newCrawler, envUsername, envPassword, storedSession, constructed,
          crawlStarted,
          interCrawler, interactions, interPhase, interLeft, interZero>>

(***************************************************************************)
(* Python values shared by the machines.                                   *)
(***************************************************************************)
None == "None"
Truthy(v) == v \notin {None, ""}

(***************************************************************************)
(* Arbitrary-size naturals.  Python ints are unbounded and a float holds a *)
(* 53-bit significand, so the parsers' arithmetic is done on little-endian *)
(* sequences of six limbs in base LimbBase.                                *)
(***************************************************************************)
LimbBase == 2 ^ 15

BigOf(n) ==
    <<n % LimbBase, (n \div LimbBase) % LimbBase, n \div (LimbBase * LimbBase), 0, 0, 0>>

BigZero == BigOf(0)

RECURSIVE MulCarry(_, _, _, _)
MulCarry(a, s, i, c) ==
    IF i > Len(a) THEN <<>>
    ELSE LET t == a[i] * s + c
         IN  <<t % LimbBase>> \o MulCarry(a, s, i + 1, t \div LimbBase)

\* a * s for a small s (s < LimbBase)
MulSmall(a, s) == MulCarry(a, s, 1, 0)

\* a + s for a small s
AddSmall(a, s) == MulCarry(a, 1, 1, s)

RECURSIVE DivTop(_, _, _, _)
DivTop(a, s, i, r) ==
    IF i = 0 THEN <<>>
    ELSE LET t == r * LimbBase + a[i]
         IN  DivTop(a, s, i - 1, t % s) \o <<t \div s>>

\* floor(a / s) for a small s (0 < s < LimbBase)
DivSmall(a, s) == DivTop(a, s, Len(a), 0)

RECURSIVE Pow2Small(_)
Pow2Small(n) == IF n = 0 THEN 1 ELSE 2 * Pow2Small(n - 1)

RECURSIVE ShiftLeft(_, _)
ShiftLeft(a, n) ==
    IF n >= 15 THEN ShiftLeft(<<0>> \o SubSeq(a, 1, Len(a) - 1), n - 15)
    ELSE MulSmall(a, Pow2Small(n))

RECURSIVE ShiftRight(_, _)
ShiftRight(a, n) ==
    IF n >= 15 THEN ShiftRight(Tail(a) \o <<0>>, n - 15)
    ELSE DivSmall(a, Pow2Small(n))

RECURSIVE BigGEFrom(_, _, _)
BigGEFrom(a, b, i) ==
    IF i = 0 THEN TRUE
    ELSE IF a[i] # b[i] THEN a[i] > b[i]
    ELSE BigGEFrom(a, b, i - 1)

BigGE(a, b) == BigGEFrom(a, b, Len(a))

RECURSIVE BitLenSmall(_)
BitLenSmall(n) == IF n = 0 THEN 0 ELSE 1 + BitLenSmall(n \div 2)

RECURSIVE BitLenFrom(_, _)
BitLenFrom(a, i) ==
    IF i = 0 THEN 0
    ELSE IF a[i] # 0 THEN 15 * (i - 1) + BitLenSmall(a[i])
    ELSE BitLenFrom(a, i - 1)

BitLen(a) == BitLenFrom(a, Len(a))

RECURSIVE MulPow10(_, _)
MulPow10(a, f) == IF f = 0 THEN a ELSE MulPow10(MulSmall(a, 10), f - 1)

RECURSIVE DivPow10(_, _)
DivPow10(a, f) == IF f = 0 THEN a ELSE DivPow10(DivSmall(a, 10), f - 1)

\* a / 2^r rounded to nearest, ties to even (r >= 1)
RoundShift(a, r) ==
    LET q2     == ShiftRight(a, r - 1)
        q      == DivSmall(q2, 2)
        half   == q2[1] % 2 = 1
        sticky == ShiftLeft(q2, r - 1) # a
    IN  IF ~half THEN q
        ELSE IF sticky \/ q[1] % 2 = 1 THEN AddSmall(q, 1)
        ELSE q

(***************************************************************************)
(* IEEE-754 binary64, as Python's float.  A float is [m, k]: the value     *)
(* m / 2^k with m < 2^53 (k may be negative for large values).             *)
(***************************************************************************)
MantBits == 53

\* float("<digits of n>.<f fraction digits>"): the double nearest n / 10^f
FloatOfDecimal(n, f) ==
    IF n = 0 THEN [m |-> BigZero, k |-> 0]
    ELSE
    LET N   == BigOf(n)
        T   == MulPow10(ShiftLeft(BigOf(1), MantBits - 1), f)   \* 2^52 * 10^f
        k1  == (MantBits - 1) - BitLenSmall(n) + BitLen(MulPow10(BigOf(1), f))
        k   == IF BigGE(ShiftLeft(N, k1), T) THEN k1 ELSE k1 + 1
        q   == DivPow10(ShiftLeft(N, k + 1), f)
    IN  [m |-> DivSmall(AddSmall(q, 1), 2), k |-> k]

\* the product's significand, rounded to 53 bits
FloatRound(p, k) ==
    LET L == BitLen(p)
    IN  IF L <= MantBits THEN [m |-> p, k |-> k]
        ELSE [m |-> RoundShift(p, L - MantBits), k |-> k - (L - MantBits)]

\* x * 1000 and x * 1_000_000 (the factors are exact floats)
FloatTimes1000(x) == FloatRound(MulSmall(x.m, 1000), x.k)
FloatTimes1000000(x) == FloatRound(MulSmall(MulSmall(x.m, 1000), 1000), x.k)

\* int(x): truncation
IntOfFloat(x) == IF x.k >= 0 THEN ShiftRight(x.m, x.k) ELSE ShiftLeft(x.m, 0 - x.k)

(***************************************************************************)
(* Strings are sequences of one-character strings.                         *)
(***************************************************************************)
Digits == <<"0", "1", "2", "3", "4", "5", "6", "7", "8", "9">>
UpperCase == <<"A", "B", "C", "D", "E", "F", "G", "H", "I", "J", "K", "L", "M",
               "N", "O", "P", "Q", "R", "S", "T", "U", "V", "W", "X", "Y", "Z">>
LowerCase == <<"a", "b", "c", "d", "e", "f", "g", "h", "i", "j", "k", "l", "m",
               "n", "o", "p", "q", "r", "s", "t", "u", "v", "w", "x", "y", "z">>
Whitespace == {" ", "\t", "\n"}

IsDigit(c) == \E i \in 1..10 : Digits[i] = c
DigitVal(c) == (CHOOSE i \in 1..10 : Digits[i] = c) - 1

\* str.lower()
LowerChar(c) ==
    IF \E i \in 1..26 : UpperCase[i] = c
    THEN LowerCase[CHOOSE i \in 1..26 : UpperCase[i] = c]
    ELSE c
Lower(s) == [i \in 1..Len(s) |-> LowerChar(s[i])]

\* str.replace(ch, "")
RemoveChar(s, ch) == SelectSeq(s, LAMBDA c : c # ch)

\* str.strip()
RECURSIVE LStrip(_)
LStrip(s) == IF s # <<>> /\ Head(s) \in Whitespace THEN LStrip(Tail(s)) ELSE s
RECURSIVE RStrip(_)
RStrip(s) ==
    IF s # <<>> /\ s[Len(s)] \in Whitespace THEN RStrip(SubSeq(s, 1, Len(s) - 1)) ELSE s
Strip(s) == RStrip(LStrip(s))

Contains(s, ch) == \E i \in 1..Len(s) : s[i] = ch

\* the integer written by a run of digits
RECURSIVE DigitsToInt(_)
DigitsToInt(s) ==
    IF s = <<>> THEN 0
    ELSE 10 * DigitsToInt(SubSeq(s, 1, Len(s) - 1)) + DigitVal(s[Len(s)])

\* last index of the run of digits that starts at i
RECURSIVE DigitRunEnd(_, _)
DigitRunEnd(s, i) ==
    IF i + 1 <= Len(s) /\ IsDigit(s[i + 1]) THEN DigitRunEnd(s, i + 1) ELSE i

\* float(s) accepts, over the characters modelled here, digits with at most one
\* "." and at least one digit (surrounding whitespace is ignored); anything
\* else raises ValueError
FloatSyntaxOK(s) ==
    LET t == Strip(s)
    IN  /\ \A i \in 1..Len(t) : IsDigit(t[i]) \/ t[i] = "."
        /\ Cardinality({i \in 1..Len(t) : t[i] = "."}) <= 1
        /\ \E i \in 1..Len(t) : IsDigit(t[i])

\* float(s) for a string float() accepts
FloatOfString(s) ==
    LET t   == Strip(s)
        dot == IF Contains(t, ".") THEN CHOOSE i \in 1..Len(t) : t[i] = "." ELSE 0
        f   == IF dot = 0 THEN 0 ELSE Len(t) - dot
    IN  FloatOfDecimal(DigitsToInt(RemoveChar(t, ".")), f)

(***************************************************************************)
(* BaseCrawler._extract_numbers_from_text                                  *)
(***************************************************************************)
\* re.search(r"(\d+(?:\.\d+)?)([kKmM]?)", s): the leftmost match, or NoMatch
NoMatch == [found |-> FALSE]
NumberSearch(s) ==
    IF ~ \E i \in 1..Len(s) : IsDigit(s[i]) THEN NoMatch
    ELSE
    LET i    == CHOOSE x \in 1..Len(s) :
                    IsDigit(s[x]) /\ \A y \in 1..(x - 1) : ~IsDigit(s[y])
        j    == DigitRunEnd(s, i)
        frac == j + 2 <= Len(s) /\ s[j + 1] = "." /\ IsDigit(s[j + 2])
        e    == IF frac THEN DigitRunEnd(s, j + 2) ELSE j
    IN  [found  |-> TRUE,
         value  |-> SubSeq(s, i, e),
         suffix |-> IF e + 1 <= Len(s) /\ s[e + 1] \in {"k", "K", "m", "M"}
                    THEN s[e + 1] ELSE ""]

extract_numbers_from_text(s) ==
    LET t == RemoveChar(Lower(s), ",")
        m == NumberSearch(t)
    IN  IF ~m.found THEN BigZero
        ELSE LET num == FloatOfString(m.value)
             IN  IF m.suffix = "k" THEN IntOfFloat(FloatTimes1000(num))
                 ELSE IF m.suffix = "m" THEN IntOfFloat(FloatTimes1000000(num))
                 ELSE IntOfFloat(num)

(***************************************************************************)
(* RedditCrawler._parse_number_from_text                                   *)
(***************************************************************************)
parse_number_from_text(s) ==
    IF s = <<>> THEN BigZero
    ELSE
    LET t == Strip(Lower(s))
    IN  IF Contains(t, "k")
        THEN LET num_part == Strip(RemoveChar(t, "k"))
             IN  IF FloatSyntaxOK(num_part)
                 THEN IntOfFloat(FloatTimes1000(FloatOfString(num_part)))
                 ELSE BigZero                       \* ValueError
        ELSE IF Contains(t, "m")
        THEN LET num_part == Strip(RemoveChar(t, "m"))
             IN  IF FloatSyntaxOK(num_part)
                 THEN IntOfFloat(FloatTimes1000000(FloatOfString(num_part)))
                 ELSE BigZero                       \* ValueError
        ELSE LET cleaned_text == SelectSeq(t, LAMBDA c : IsDigit(c) \/ c = ".")
             IN  IF cleaned_text = <<>> THEN BigZero
                 ELSE IF FloatSyntaxOK(cleaned_text)
                 THEN IntOfFloat(FloatOfString(cleaned_text))
                 ELSE BigZero                       \* ValueError

(***************************************************************************)
(* Idle values: what a machine's variables hold while another one runs.    *)
(***************************************************************************)
NoRun == [op |-> "none"]
IdleSave == fsDirs = {} /\ fsFiles = <<>> /\ call = NoRun
NoResult == [ended |-> "no", posts |-> <<>>]
IdleCollect ==
    /\ colCrawler = "none"
    /\ target_count = 0
    /\ colPosts = <<>>
    /\ extracted_urls = {}
    /\ scroll_attempts = 0
    /\ no_new_posts_count = 0
    /\ new_posts_count = 0
    /\ batchLeft = 0
    /\ colPc = "idle"
    /\ colResult = NoResult
    /\ offered = {}

Running == [outcome |-> "running", posts |-> <<>>]
IdleCrawl ==
    /\ crawler = "none"
    /\ debug_mode = FALSE
    /\ login_retry_count = 0
    /\ has_credentials = FALSE
    /\ session_file = FALSE
    /\ is_logged_in = FALSE
    /\ session_loaded = FALSE
    /\ pc = "idle"
    /\ attempt = 0
    /\ loginLog = <<>>
    /\ login_returned = "none"
    /\ impl = "none"
    /\ pendingExc = "none"
    /\ didCollect = FALSE
    /\ implPosts = <<>>
    /\ browser = "none"
    /\ debugWait = "none"
    /\ crawl_result = Running
    /\ sessionLog = <<>>
IdleLoop ==
    /\ loopCrawler = "none"
    /\ loopTarget = 0
    /\ loopLen = 0
    /\ loopScroll = 0
    /\ loopEmpty = 0
    /\ loopIter = 0
    /\ loopWindow = <<>>
    /\ loopEmptyTotal = 0
    /\ loopEnd = "idle"
NoPayload == [none |-> TRUE]
NoAnswer == [kind |-> "none"]
IdleExport ==
    /\ webapp_url = FALSE
    /\ expPosts = <<>>
    /\ expPlatform = "none"
    /\ expPayload = NoPayload
    /\ expReturn = "none"
    /\ expAnswer = NoAnswer
IdleInit ==
    /\ newCrawler = "none"
    /\ envUsername = None
    /\ envPassword = None
    /\ storedSession = FALSE
    /\ constructed = "none"
    /\ crawlStarted = FALSE
\* the dict of an extractor before anything is read: every count is None (<<>>)
NoInteractions == [likes |-> <<>>, comments |-> <<>>, shares |-> <<>>]
IdleInter ==
    /\ interCrawler = "none"
    /\ interactions = NoInteractions
    /\ interPhase = "idle"
    /\ interLeft = 0
    /\ interZero = FALSE

(***************************************************************************)
(* SpecParse: a parser is called once on an input string.                  *)
(***************************************************************************)
MaxTextLen == 4
Alphabet == {"1", "2", "4", "7", ".", ",", "k", "K", "M", " "}
Texts == UNION {[1..n -> Alphabet] : n \in 0..MaxTextLen}

NoCall == [fn |-> "none", value |-> BigZero]

IdleParse == text = <<>> /\ parsed = NoCall

CallExtractNumbers ==
    /\ parsed = NoCall
    /\ parsed' = [fn |-> "_extract_numbers_from_text",
                  value |-> extract_numbers_from_text(text)]
    /\ UNCHANGED <<text, varsSave, varsCollect, varsCrawl, varsLoop, varsExport, varsInit, varsInter>>

CallParseNumber ==
    /\ parsed = NoCall
    /\ parsed' = [fn |-> "_parse_number_from_text",
                  value |-> parse_number_from_text(text)]
    /\ UNCHANGED <<text, varsSave, varsCollect, varsCrawl, varsLoop, varsExport, varsInit, varsInter>>

InitParse ==
    text \in Texts /\ parsed = NoCall /\ IdleSave /\ IdleCollect /\ IdleCrawl
    /\ IdleLoop
    /\ IdleExport
    /\ IdleInit
    /\ IdleInter

NextParse == CallExtractNumbers \/ CallParseNumber

SpecParse == InitParse /\ [][NextParse]_vars

\* the forms C4 speaks of
AllDigits(s) == s # <<>> /\ \A i \in 1..Len(s) : IsDigit(s[i])
HasNoDigit(s) == \A i \in 1..Len(s) : ~IsDigit(s[i])
\* digits, optionally "." and digits, then one of k K m M
IsScaledForm(s) ==
    /\ Len(s) >= 2
    /\ s[Len(s)] \in {"k", "K", "m", "M"}
    /\ LET v == SubSeq(s, 1, Len(s) - 1)
       IN  \/ AllDigits(v)
           \/ \E d \in 2..(Len(v) - 1) :
                 /\ v[d] = "."
                 /\ AllDigits(SubSeq(v, 1, d - 1))
                 /\ AllDigits(SubSeq(v, d + 1, Len(v)))
\* the number of a scaled form times its factor, exactly (fraction dropped)
ExactScaled(s) ==
    LET v   == SubSeq(s, 1, Len(s) - 1)
        dot == IF Contains(v, ".") THEN CHOOSE i \in 1..Len(v) : v[i] = "." ELSE 0
        f   == IF dot = 0 THEN 0 ELSE Len(v) - dot
        n   == BigOf(DigitsToInt(RemoveChar(v, ".")))
        up  == IF s[Len(s)] \in {"k", "K"} THEN MulSmall(n, 1000)
               ELSE MulSmall(MulSmall(n, 1000), 1000)
    IN  DivPow10(up, f)

\* C4: both parsers return the number times 1,000 for a k/K suffix and times
\* 1,000,000 for an m/M suffix ("1.7k" is 1700, "2M" is 2000000), the integer
\* itself for a plain digit string, and 0 for an input without any number.
C4_ParsersScale ==
    parsed # NoCall =>
        /\ IsScaledForm(text) => parsed.value = ExactScaled(text)
        /\ AllDigits(text) => parsed.value = BigOf(DigitsToInt(text))
        /\ HasNoDigit(text) => parsed.value = BigZero

\* the parts of C4 that do hold: the two examples, digit strings, no number
C4_ExamplesHold ==
    parsed # NoCall =>
        /\ text = <<"1", ".", "7", "k">> => parsed.value = BigOf(1700)
        /\ text = <<"2", "M">> => parsed.value = BigOf(2000000)
        /\ AllDigits(text) => parsed.value = BigOf(DigitsToInt(text))
        /\ HasNoDigit(text) => parsed.value = BigZero

\* "4.1M" comes back as 4099999 from both parsers
C4_Truncated ==
    /\ text = <<"4", ".", "1", "M">>
    /\ parsed # NoCall
    /\ parsed.value = BigOf(4099999)

(***************************************************************************)
(* SpecSave: save_posts_to_file (src/utils.py and its copy in main.py) and *)
(* the threads / linkedin commands of main.py, over a small file system.   *)
(* A path is a string; its parent is what precedes the last "/".           *)
(***************************************************************************)
MaxPosts == 3

\* Post objects handed to the writer
SavePost(platform, author) ==
    [platform |-> platform, author |-> author, content |-> "a post worth saving",
     timestamp |-> "2h", url |-> None, likes |-> None, comments |-> None,
     shares |-> None]
SavePlatforms == {"threads", "linkedin"}
SaveAuthors == {"alice", "bob"}
SavePool(platforms) == {SavePost(pf, a) : pf \in platforms, a \in SaveAuthors}
PostLists(pool) == UNION {[1..n -> pool] : n \in 0..MaxPosts}

\* datetime.now(): one instant stands for the clock
ClockNow == "20260101_000000"

\* Path(filepath).parent
SlashAt(path) == {i \in 1..Len(path) : SubSeq(path, i, i) = "/"}
Parent(path) ==
    IF SlashAt(path) = {} THEN "."
    ELSE SubSeq(path, 1, (CHOOSE i \in SlashAt(path) : \A j \in SlashAt(path) : j <= i) - 1)

DirExists(dirs, d) == d = "." \/ d \in dirs

\* post.model_dump(): the fields of the Post as a dict
ModelDump(post) == [f \in DOMAIN post |-> post[f]]

\* a mutation: the platform is read from the last post
OutputDataLastPlatform(posts) ==
    [metadata |-> [total_posts |-> Len(posts),
                   crawled_at  |-> ClockNow,
                   platform    |-> IF posts # <<>> THEN posts[Len(posts)].platform
                                   ELSE "unknown"],
     posts    |-> [i \in 1..Len(posts) |-> ModelDump(posts[i])]]

\* output_data of save_posts_to_file
OutputData(posts) ==
    [metadata |-> [total_posts |-> Len(posts),
                   crawled_at  |-> ClockNow,
                   platform    |-> IF posts # <<>> THEN posts[1].platform ELSE "unknown"],
     posts    |-> [i \in 1..Len(posts) |-> ModelDump(posts[i])]]

\* open(filepath, "w") and json.dump: the file holds the document
WriteFile(files, path, doc) ==
    [q \in DOMAIN files \cup {path} |-> IF q = path THEN doc ELSE files[q]]

SavePaths == {"out.json", "data/mine.json", "exports/out.json"}

\* src/utils.py save_posts_to_file: creates the parent directory, then writes
UtilsSavePostsToFile ==
    /\ call = NoRun
    /\ \E posts \in PostLists(SavePool(SavePlatforms)), filepath \in SavePaths :
          /\ fsDirs' = IF Parent(filepath) = "." THEN fsDirs
                       ELSE fsDirs \cup {Parent(filepath)}
          /\ fsFiles' = WriteFile(fsFiles, filepath, OutputData(posts))
          /\ call' = [op |-> "utils.save_posts_to_file", posts |-> posts,
                      path |-> filepath, mkdirData |-> FALSE, saveCalled |-> TRUE,
                      saved |-> TRUE, exit |-> 0]
    /\ UNCHANGED <<varsParse, varsCollect, varsCrawl, varsLoop, varsExport, varsInit, varsInter>>

\* main.py save_posts_to_file: open() raises FileNotFoundError when the parent
\* directory is missing
MainSavePostsToFile ==
    /\ call = NoRun
    /\ \E posts \in PostLists(SavePool(SavePlatforms)), filepath \in SavePaths :
          LET ok == DirExists(fsDirs, Parent(filepath))
          IN  /\ fsFiles' = IF ok THEN WriteFile(fsFiles, filepath, OutputData(posts))
                            ELSE fsFiles
              /\ call' = [op |-> "main.save_posts_to_file", posts |-> posts,
                          path |-> filepath, mkdirData |-> FALSE, saveCalled |-> TRUE,
                          saved |-> ok, exit |-> 0]
    /\ UNCHANGED <<fsDirs, varsParse, varsCollect, varsCrawl, varsLoop, varsExport, varsInit, varsInter>>

\* the --output option: absent, or a path
OutputOptions == {None} \cup SavePaths

\* a command of main.py: crawl, exit 1 on no posts, else name the file, create
\* data/, save and print the summary.  An exception that leaves the command
\* ends the process with status 1.
Command(platform) ==
    /\ call = NoRun
    /\ \E posts \in PostLists(SavePool({platform})), output \in OutputOptions :
          IF posts = <<>>
          THEN /\ call' = [op |-> platform, posts |-> posts, path |-> output,
                           mkdirData |-> FALSE, saveCalled |-> FALSE,
                           saved |-> FALSE, exit |-> 1]
               /\ UNCHANGED <<fsDirs, fsFiles>>
          ELSE LET filepath == IF ~Truthy(output)
                               THEN "data/" \o platform \o "_" \o ClockNow \o ".json"
                               ELSE output
                   dirs     == fsDirs \cup {"data"}
                   ok       == DirExists(dirs, Parent(filepath))
               IN  /\ fsDirs' = dirs
                   /\ fsFiles' = IF ok THEN WriteFile(fsFiles, filepath, OutputData(posts))
                                 ELSE fsFiles
                   /\ call' = [op |-> platform, posts |-> posts, path |-> filepath,
                               mkdirData |-> TRUE, saveCalled |-> TRUE,
                               saved |-> ok, exit |-> IF ok THEN 0 ELSE 1]
    /\ UNCHANGED <<varsParse, varsCollect, varsCrawl, varsLoop, varsExport, varsInit, varsInter>>

ThreadsCommand == Command("threads")
LinkedinCommand == Command("linkedin")

InitSave ==
    /\ fsDirs \in SUBSET {"data", "exports"}
    /\ fsFiles = <<>>
    /\ call = NoRun
    /\ IdleParse
    /\ IdleCollect
    /\ IdleCrawl
    /\ IdleLoop
    /\ IdleExport
    /\ IdleInit
    /\ IdleInter

NextSave ==
    \/ UtilsSavePostsToFile
    \/ MainSavePostsToFile
    \/ ThreadsCommand
    \/ LinkedinCommand

SpecSave == InitSave /\ [][NextSave]_vars

\* C1: once save_posts_to_file has written, the file's metadata.total_posts is
\* the length of the list, metadata.platform is the first post's platform
\* ("unknown" for an empty list) and posts holds one entry per post, in order.
C1_SavedDocument ==
    (call # NoRun /\ call.saved) =>
        /\ call.path \in DOMAIN fsFiles
        /\ LET doc == fsFiles[call.path]
           IN  /\ doc.metadata.total_posts = Len(call.posts)
               /\ doc.metadata.platform =
                      IF call.posts = <<>> THEN "unknown" ELSE call.posts[1].platform
               /\ Len(doc.posts) = Len(call.posts)
               /\ \A i \in 1..Len(call.posts) : doc.posts[i] = ModelDump(call.posts[i])

\* a list whose first and last posts are of different platforms was saved
C1_Witness ==
    /\ call # NoRun
    /\ call.saved
    /\ Len(call.posts) = MaxPosts
    /\ call.posts[1].platform # call.posts[MaxPosts].platform
    /\ fsFiles[call.path].metadata.platform = call.posts[1].platform

\* C5: a command that crawled no post exits with code 1 before data/ is created
\* and before save_posts_to_file is called; one that crawled a post saves the
\* file and does not exit with code 1.
C5_CommandExit ==
    (call # NoRun /\ call.op \in {"threads", "linkedin"}) =>
        /\ call.posts = <<>> =>
              call.exit = 1 /\ ~call.mkdirData /\ ~call.saveCalled /\ fsFiles = <<>>
        /\ call.posts # <<>> => call.saved /\ call.exit # 1

\* the half of C5 that holds: no post, exit 1, nothing touched
C5_NoPostsExit ==
    (call # NoRun /\ call.op \in {"threads", "linkedin"} /\ call.posts = <<>>) =>
        call.exit = 1 /\ ~call.mkdirData /\ ~call.saveCalled /\ fsFiles = <<>>

\* a command crawled a post, --output named a file in a missing directory
C5_MissingDirectory ==
    /\ call # NoRun
    /\ call.op \in {"threads", "linkedin"}
    /\ call.posts # <<>>
    /\ ~call.saved
    /\ call.exit = 1

(***************************************************************************)
(* SpecCollect: the collection loops.  The page is the environment: each   *)
(* round it shows some elements, and each element yields the post_data the *)
(* extractors would build from it.  A loop is followed element by element. *)
(***************************************************************************)
MaxCount == 2

\* what the extractors can return for one element: the author ("Unknown" is
\* the extractors' fallback), the content (around each filter's threshold),
\* the permalink, and once a missing timestamp
Authors == {"alice", "bob", "Unknown"}
Urls == {None, "u1", "u2"}
ContentsOf(c) ==
    IF c = "threads" THEN {"", " ", "x", "another post"}
    ELSE {"", "fifteen chars!!", "sixteen chars ok", "another long post"}
UrlsOf(c) == IF c = "threads" THEN {None, "u1"} ELSE Urls
PostData(c) ==
    [author : Authors, content : ContentsOf(c), timestamp : {"2h"}, url : UrlsOf(c)]
    \cup
    [author : {"alice"}, content : {"another post", "another long post"} \cap ContentsOf(c),
     timestamp : {None}, url : {"u2"}]

\* len(str(content).strip())
RECURSIVE StrLStrip(_)
StrLStrip(str) ==
    IF Len(str) > 0 /\ SubSeq(str, 1, 1) \in Whitespace
    THEN StrLStrip(SubSeq(str, 2, Len(str))) ELSE str
RECURSIVE StrRStrip(_)
StrRStrip(str) ==
    IF Len(str) > 0 /\ SubSeq(str, Len(str), Len(str)) \in Whitespace
    THEN StrRStrip(SubSeq(str, 1, Len(str) - 1)) ELSE str
StrStrip(str) == StrRStrip(StrLStrip(str))
StrippedLen(content) == Len(StrStrip(content))

\* Post(platform=..., **post_data): pydantic raises unless the str fields are str
PostBuilds(post_data) ==
    post_data.author # None /\ post_data.content # None /\ post_data.timestamp # None
MakePost(platform, post_data) ==
    [platform |-> platform, author |-> post_data.author, content |-> post_data.content,
     timestamp |-> post_data.timestamp, url |-> post_data.url]

\* the duplicate test of the progressive loops (LinkedIn, X, Reddit)
is_duplicate(collected, post_data) ==
    \E i \in 1..Len(collected) :
        \/ collected[i].url = post_data.url
        \/ (collected[i].content = post_data.content
            /\ collected[i].author = post_data.author)

\* a mutation: the author is not looked at
is_valid_post_any_author(post_data) ==
    Truthy(post_data.content) /\ StrippedLen(post_data.content) > 15

\* X / LinkedIn _is_valid_post
progressive_is_valid_post(post_data) ==
    /\ Truthy(post_data.content)
    /\ StrippedLen(post_data.content) > 15
    /\ Truthy(post_data.author)
    /\ post_data.author # "Unknown"

\* Threads _is_valid_post
threads_is_valid_post(post_data) ==
    /\ Truthy(post_data.content)
    /\ StrippedLen(post_data.content) >= 1
    /\ Truthy(post_data.author)
    /\ post_data.author # "Unknown"

\* GeekNews _is_valid_post
geeknews_is_valid_post(post_data) ==
    Truthy(post_data.content) /\ StrippedLen(post_data.content) > 10

\* Threads _generate_post_id
generate_post_id(post_data) ==
    IF Truthy(post_data.url) THEN post_data.url
    ELSE post_data.author \o ":" \o
         (IF Len(post_data.content) > 100 THEN SubSeq(post_data.content, 1, 100)
          ELSE post_data.content)

Min(a, b) == IF a <= b THEN a ELSE b
\* a mutation of Take: the list is returned whole
TakeAll(seq, n) == seq
Take(seq, n) == SubSeq(seq, 1, Min(n, Len(seq)))

\* history only: was the candidate one without content or without author
Kinds(collected, post_data) ==
    IF post_data.content = "" \/ post_data.author = "Unknown" THEN {"invalid"} ELSE {}

ColDone(list, how) ==
    /\ colPc' = "done"
    /\ colResult' = [ended |-> how, posts |-> list]

(***************************************************************************)
(* LinkedIn and X: _progressive_post_collection (the two are the same code *)
(* but for the platform name and max_scroll_attempts).                     *)
(***************************************************************************)
linkedin_max_scroll_attempts == 5
x_max_scroll_attempts == 8
\* a mutation: the two budgets change places
ProgressiveMaxSwapped(c) ==
    IF c = "linkedin" THEN x_max_scroll_attempts ELSE linkedin_max_scroll_attempts
ProgressiveMax(c) ==
    IF c = "linkedin" THEN linkedin_max_scroll_attempts ELSE x_max_scroll_attempts

\* the while test, then the page's elements (at most target_count are kept)
ProgressiveFetch(c) ==
    /\ colCrawler = c
    /\ colPc = "loop"
    /\ IF Len(colPosts) < target_count /\ scroll_attempts < ProgressiveMax(c)
       THEN /\ \E n \in 0..target_count : batchLeft' = n
            /\ new_posts_count' = 0
            /\ colPc' = "element"
            /\ UNCHANGED colResult
       ELSE /\ ColDone(Take(colPosts, target_count), "returned")
            /\ UNCHANGED <<batchLeft, new_posts_count>>
    /\ UNCHANGED <<colCrawler, target_count, colPosts, extracted_urls, scroll_attempts,
                   no_new_posts_count, offered, varsParse, varsSave, varsCrawl, varsLoop, varsExport, varsInit, varsInter>>

\* one pass of the for loop over current_posts
ProgressiveElement(c) ==
    /\ colCrawler = c
    /\ colPc = "element"
    /\ batchLeft > 0
    /\ IF Len(colPosts) >= target_count
       THEN /\ batchLeft' = 0
            /\ UNCHANGED <<colPosts, new_posts_count, offered>>
       ELSE \E post_data \in PostData(c) :
              /\ batchLeft' = batchLeft - 1
              /\ offered' = offered \cup Kinds(colPosts, post_data)
              /\ IF /\ ~is_duplicate(colPosts, post_data)
                    /\ progressive_is_valid_post(post_data)
                    /\ PostBuilds(post_data)
                 THEN /\ colPosts' = Append(colPosts, MakePost(c, post_data))
                      /\ new_posts_count' = new_posts_count + 1
                 ELSE UNCHANGED <<colPosts, new_posts_count>>
    /\ UNCHANGED <<colCrawler, target_count, extracted_urls, scroll_attempts,
                   no_new_posts_count, colPc, colResult, varsParse, varsSave, varsCrawl, varsLoop, varsExport, varsInit, varsInter>>

\* after the for loop: leave on target, scroll when the round added nothing
ProgressiveEndRound(c) ==
    /\ colCrawler = c
    /\ colPc = "element"
    /\ batchLeft = 0
    /\ IF Len(colPosts) >= target_count
       THEN /\ ColDone(Take(colPosts, target_count), "returned")
            /\ UNCHANGED scroll_attempts
       ELSE /\ colPc' = "loop"
            /\ scroll_attempts' =
                   IF new_posts_count = 0 THEN scroll_attempts + 1 ELSE scroll_attempts
            /\ UNCHANGED colResult
    /\ UNCHANGED <<colCrawler, target_count, colPosts, extracted_urls,
                   no_new_posts_count, new_posts_count, batchLeft, offered,
                   varsParse, varsSave, varsCrawl, varsLoop, varsExport, varsInit, varsInter>>

LinkedinFetch == ProgressiveFetch("linkedin")
LinkedinElement == ProgressiveElement("linkedin")
LinkedinEndRound == ProgressiveEndRound("linkedin")
XFetch == ProgressiveFetch("x")
XElement == ProgressiveElement("x")
XEndRound == ProgressiveEndRound("x")

(***************************************************************************)
(* Threads: _extract_posts_incrementally, then the tail of                 *)
(* _crawl_implementation that turns the collected post_data into Posts.    *)
(***************************************************************************)
threads_max_scroll_attempts == 15

RECURSIVE ThreadsPosts(_)
ThreadsPosts(post_elements) ==
    IF post_elements = <<>> THEN <<>>
    ELSE LET post_data == Head(post_elements)
         IN  (IF threads_is_valid_post(post_data) /\ PostBuilds(post_data)
              THEN <<MakePost("threads", post_data)>> ELSE <<>>)
             \o ThreadsPosts(Tail(post_elements))

\* _crawl_implementation from line 132 on, given what the extraction returned
ThreadsReturn(all_posts) == ColDone(ThreadsPosts(Take(all_posts, target_count)), "returned")

\* a round starts: the elements now in the DOM
ThreadsFetch ==
    /\ colCrawler = "threads"
    /\ colPc = "loop"
    /\ new_posts_count' = 0
    /\ colPc' = "element"
    /\ UNCHANGED <<colCrawler, target_count, colPosts, extracted_urls, scroll_attempts,
                   no_new_posts_count, batchLeft, colResult, offered, varsParse, varsSave, varsCrawl, varsLoop, varsExport, varsInit, varsInter>>

\* one element of the round (a round may hold any number of them)
ThreadsElement ==
    /\ colCrawler = "threads"
    /\ colPc = "element"
    /\ \E post_data \in PostData("threads") :
          LET post_id == generate_post_id(post_data)
              fresh   == post_id \notin extracted_urls /\ threads_is_valid_post(post_data)
              all     == IF fresh THEN Append(colPosts, post_data) ELSE colPosts
          IN  /\ offered' = offered \cup Kinds(colPosts, post_data)
              /\ colPosts' = all
              /\ extracted_urls' =
                     IF fresh THEN extracted_urls \cup {post_id} ELSE extracted_urls
              /\ new_posts_count' = IF fresh THEN new_posts_count + 1 ELSE new_posts_count
              /\ IF fresh /\ Len(all) >= target_count
                 THEN ThreadsReturn(all)
                 ELSE UNCHANGED <<colPc, colResult>>
    /\ UNCHANGED <<colCrawler, target_count, scroll_attempts, no_new_posts_count,
                   batchLeft, varsParse, varsSave, varsCrawl, varsLoop, varsExport, varsInit, varsInter>>

\* after the elements: three empty rounds in a row, or 90% of the target, or
\* the last round end the extraction; otherwise scroll and go on
ThreadsEndRound ==
    /\ colCrawler = "threads"
    /\ colPc = "element"
    /\ LET empties == IF new_posts_count = 0 THEN no_new_posts_count + 1 ELSE 0
           stop    == \/ empties >= 3
                      \/ 10 * Len(colPosts) >= 9 * target_count
                      \/ scroll_attempts + 1 >= threads_max_scroll_attempts
       IN  /\ no_new_posts_count' = empties
           /\ IF stop
              THEN /\ ThreadsReturn(colPosts)
                   /\ UNCHANGED scroll_attempts
              ELSE /\ colPc' = "loop"
                   /\ scroll_attempts' = scroll_attempts + 1
                   /\ UNCHANGED colResult
    /\ UNCHANGED <<colCrawler, target_count, colPosts, extracted_urls, new_posts_count,
                   batchLeft, offered, varsParse, varsSave, varsCrawl, varsLoop, varsExport, varsInit, varsInter>>

(***************************************************************************)
(* Reddit: _collect_posts with its three extractors, then                  *)
(* _progressive_post_collection, which has no validity test.               *)
(***************************************************************************)
reddit_max_scroll_attempts == 10

NoData == [none |-> TRUE]
RedditSelectors == {"shreddit-post", "article", "other"}
\* what the element shows; fallback is the title shreddit falls back to
RedditElements ==
    [subreddit : {"", "r/python"}, title : {"", "a reddit title"}, url : Urls,
     timestamp : {"2h"}, fallback : {""}]
    \cup
    [subreddit : {"r/python"}, title : {"", "a reddit title"}, url : {"u2"},
     timestamp : {None}, fallback : {"", "the fallback title"}]

Or(v, default) == IF Truthy(v) THEN v ELSE default

\* _extract_post_data_from_shreddit / _from_article / _extract_post_data
RedditExtract(selector, e) ==
    IF selector = "shreddit-post"
    THEN [author    |-> Or(e.subreddit, "Unknown"),
          content   |-> IF ~Truthy(e.title) /\ Truthy(e.fallback) THEN e.fallback
                        ELSE Or(e.title, "No title"),
          timestamp |-> Or(e.timestamp, ""),
          url       |-> e.url]
    ELSE IF selector = "article"
    THEN IF ~Truthy(e.title) /\ ~Truthy(e.url) THEN NoData
         ELSE [author    |-> Or(e.subreddit, "Unknown"),
               content   |-> Or(e.title, "No title"),
               timestamp |-> e.timestamp,
               url       |-> e.url]
    ELSE LET author == Or(e.subreddit, "Unknown")      \* _extract_author's fallback
         IN  IF ~Truthy(author) /\ ~Truthy(e.title) THEN NoData
             ELSE [author    |-> Or(author, "Unknown"),
                   content   |-> Or(e.title, "No title"),
                   timestamp |-> e.timestamp,
                   url       |-> e.url]

RedditFetch ==
    /\ colCrawler = "reddit"
    /\ colPc = "loop"
    /\ IF Len(colPosts) < target_count /\ scroll_attempts < reddit_max_scroll_attempts
       THEN /\ new_posts_count' = 0
            /\ colPc' = "element"
            /\ UNCHANGED colResult
       ELSE /\ ColDone(colPosts, "returned")
            /\ UNCHANGED new_posts_count
    /\ UNCHANGED <<colCrawler, target_count, colPosts, extracted_urls, scroll_attempts,
                   no_new_posts_count, batchLeft, offered, varsParse, varsSave, varsCrawl, varsLoop, varsExport, varsInit, varsInter>>

\* one post_data of current_posts (any number of them; the for loop breaks
\* once the target is met); a Post that does not build raises out of the loop
\* and _crawl_implementation returns [] from its except clause
RedditElement ==
    /\ colCrawler = "reddit"
    /\ colPc = "element"
    /\ Len(colPosts) < target_count
    /\ \E selector \in RedditSelectors, e \in RedditElements :
          LET post_data == RedditExtract(selector, e)
          IN  IF post_data = NoData
              THEN UNCHANGED <<colPosts, new_posts_count, offered, colPc, colResult>>
              ELSE /\ offered' = offered \cup Kinds(colPosts, post_data)
                   /\ IF is_duplicate(colPosts, post_data)
                      THEN UNCHANGED <<colPosts, new_posts_count, colPc, colResult>>
                      ELSE IF PostBuilds(post_data)
                      THEN /\ colPosts' = Append(colPosts, MakePost("reddit", post_data))
                           /\ new_posts_count' = new_posts_count + 1
                           /\ UNCHANGED <<colPc, colResult>>
                      ELSE /\ ColDone(<<>>, "raised")
                           /\ UNCHANGED <<colPosts, new_posts_count>>
    /\ UNCHANGED <<colCrawler, target_count, extracted_urls, scroll_attempts,
                   no_new_posts_count, batchLeft, varsParse, varsSave, varsCrawl, varsLoop, varsExport, varsInit, varsInter>>

RedditEndRound ==
    /\ colCrawler = "reddit"
    /\ colPc = "element"
    /\ IF Len(colPosts) >= target_count
       THEN /\ ColDone(colPosts, "returned")
            /\ UNCHANGED scroll_attempts
       ELSE /\ colPc' = "loop"
            /\ scroll_attempts' = scroll_attempts + 1
            /\ UNCHANGED colResult
    /\ UNCHANGED <<colCrawler, target_count, colPosts, extracted_urls,
                   no_new_posts_count, new_posts_count, batchLeft, offered,
                   varsParse, varsSave, varsCrawl, varsLoop, varsExport, varsInit, varsInter>>

(***************************************************************************)
(* GeekNews: one pass over post_elements[:count], no duplicate test.       *)
(***************************************************************************)
\* what the element shows: the text of the author node ("" when there is
\* none) and the title, with any description already appended
GeekNewsElements ==
    [author_text : {"", " alice ", "Unknown"},
     title : {"", "ten chars!", " eleven char ", "another long post"},
     url : Urls, timestamp : {"2h"}]
    \cup
    [author_text : {""}, title : {"another long post"}, url : {"u2"}, timestamp : {None}]

\* GeekNews _extract_post_data with _extract_author
GeekNewsExtract(e) ==
    [author    |-> IF StrStrip(e.author_text) # "" THEN StrStrip(e.author_text)
                   ELSE "GeekNews",
     content   |-> IF Truthy(e.title)
                   THEN (IF Len(StrStrip(e.title)) > 500
                         THEN SubSeq(StrStrip(e.title), 1, 500) ELSE StrStrip(e.title))
                   ELSE "",
     timestamp |-> e.timestamp,
     url       |-> e.url]

GeekNewsFetch ==
    /\ colCrawler = "geeknews"
    /\ colPc = "loop"
    /\ \E n \in 0..target_count : batchLeft' = n
    /\ new_posts_count' = 0
    /\ colPc' = "element"
    /\ UNCHANGED <<colCrawler, target_count, colPosts, extracted_urls, scroll_attempts,
                   no_new_posts_count, colResult, offered, varsParse, varsSave, varsCrawl, varsLoop, varsExport, varsInit, varsInter>>

GeekNewsElement ==
    /\ colCrawler = "geeknews"
    /\ colPc = "element"
    /\ batchLeft > 0
    /\ \E e \in GeekNewsElements :
          LET post_data == GeekNewsExtract(e)
          IN  /\ offered' = offered \cup Kinds(colPosts, post_data)
              /\ batchLeft' = batchLeft - 1
              /\ IF geeknews_is_valid_post(post_data) /\ PostBuilds(post_data)
                 THEN /\ colPosts' = Append(colPosts, MakePost("geeknews", post_data))
                      /\ new_posts_count' = new_posts_count + 1
                 ELSE UNCHANGED <<colPosts, new_posts_count>>
    /\ UNCHANGED <<colCrawler, target_count, extracted_urls, scroll_attempts,
                   no_new_posts_count, colPc, colResult, varsParse, varsSave, varsCrawl, varsLoop, varsExport, varsInit, varsInter>>

GeekNewsReturn ==
    /\ colCrawler = "geeknews"
    /\ colPc = "element"
    /\ batchLeft = 0
    /\ ColDone(colPosts, "returned")
    /\ UNCHANGED <<colCrawler, target_count, colPosts, extracted_urls, scroll_attempts,
                   no_new_posts_count, new_posts_count, batchLeft, offered,
                   varsParse, varsSave, varsCrawl, varsLoop, varsExport, varsInit, varsInter>>

CollectCrawlers == {"threads", "linkedin", "x", "reddit", "geeknews"}

InitCollect ==
    /\ colCrawler \in CollectCrawlers
    /\ target_count \in 0..MaxCount
    /\ colPosts = <<>>
    /\ extracted_urls = {}
    /\ scroll_attempts = 0
    /\ no_new_posts_count = 0
    /\ new_posts_count = 0
    /\ batchLeft = 0
    /\ colPc = "loop"
    /\ colResult = NoResult
    /\ offered = {}
    /\ IdleParse
    /\ IdleSave
    /\ IdleCrawl
    /\ IdleLoop
    /\ IdleExport
    /\ IdleInit
    /\ IdleInter

NextCollect ==
    \/ ThreadsFetch \/ ThreadsElement \/ ThreadsEndRound
    \/ LinkedinFetch \/ LinkedinElement \/ LinkedinEndRound
    \/ XFetch \/ XElement \/ XEndRound
    \/ RedditFetch \/ RedditElement \/ RedditEndRound
    \/ GeekNewsFetch \/ GeekNewsElement \/ GeekNewsReturn

SpecCollect == InitCollect /\ [][NextCollect]_vars

ReturnedPosts == {colResult.posts[i] : i \in 1..Len(colResult.posts)}

\* C2 as stated: no crawler returns a Post with empty content or with the
\* author "Unknown".
C2_NoEmptyNoUnknown ==
    colPc = "done" =>
        \A post \in ReturnedPosts : post.content # "" /\ post.author # "Unknown"

\* C2: Threads, LinkedIn and X return no Post with empty content or the author
\* "Unknown" (Threads asks for one visible character, LinkedIn and X for more
\* than 15); GeekNews returns no Post whose stripped content has 10 characters
\* or fewer; Reddit, which does not filter, returns no Post with empty content.
C2_FilteredCrawlers ==
    colPc = "done" =>
        \A post \in ReturnedPosts :
            /\ colCrawler \in {"threads", "linkedin", "x"} =>
                  /\ post.content # ""
                  /\ post.author \notin {"Unknown", ""}
                  /\ StrippedLen(post.content) >= 1
            /\ colCrawler \in {"linkedin", "x"} => StrippedLen(post.content) > 15
            /\ colCrawler = "geeknews" => StrippedLen(post.content) > 10
            /\ colCrawler = "reddit" => post.content # ""

\* X was shown a candidate without content or author and returned a full list
C2_Witness ==
    /\ colCrawler = "x"
    /\ colPc = "done"
    /\ "invalid" \in offered
    /\ Len(colResult.posts) = MaxCount

\* Reddit returned a Post whose author is "Unknown"
C2_RedditUnknown ==
    /\ colCrawler = "reddit"
    /\ colPc = "done"
    /\ \E post \in ReturnedPosts : post.author = "Unknown"

NoTwoAlike(list) ==
    \A i, j \in 1..Len(list) :
        i < j =>
            /\ list[i].url # list[j].url
            /\ ~(list[i].author = list[j].author /\ list[i].content = list[j].content)

\* C3: in the crawlers with a duplicate test (Threads, LinkedIn, X, Reddit) the
\* collected list never holds two records with the same URL or with the same
\* author and content.
C3_NoDuplicates ==
    colCrawler \in {"threads", "linkedin", "x", "reddit"} => NoTwoAlike(colPosts)

\* the part of C3 that holds: the progressive loops of LinkedIn, X and Reddit
C3_ProgressiveNoDuplicates ==
    colCrawler \in {"linkedin", "x", "reddit"} => NoTwoAlike(colPosts)

\* Threads holds the same author and content twice, once with and once
\* without a URL
C3_ThreadsTwice ==
    /\ colCrawler = "threads"
    /\ \E i, j \in 1..Len(colPosts) :
          /\ i < j
          /\ colPosts[i].author = colPosts[j].author
          /\ colPosts[i].content = colPosts[j].content
          /\ colPosts[i].url # colPosts[j].url

(***************************************************************************)
(* SpecCrawl: BaseCrawler.crawl around a platform's _crawl_implementation, *)
(* with session restore and login.  The browser and the site are the       *)
(* environment: each awaited call returns or raises.                       *)
(***************************************************************************)
MaxRetry == 3

LoginCrawlers == {"threads", "linkedin", "x"}

\* the exceptions the awaited calls raise, and the except clauses' classes
ExcKinds == {"PlaywrightTimeoutError", "Error"}
IsInstance(kind, cls) ==
    \/ cls = "Exception"
    \/ cls = kind

\* a mutation: crawl catches timeouts only
CrawlHandlesTimeoutOnly(kind) == IsInstance(kind, "PlaywrightTimeoutError")

\* the "except Exception" of BaseCrawler.crawl
CrawlHandles(kind) == IsInstance(kind, "Exception")

\* the posts crawl holds: assigned only when _crawl_implementation returned
CrawlPosts == IF impl = "returned" THEN implPosts ELSE <<>>

\* an exception reaches crawl's except clause (or leaves crawl)
CrawlRaise(kind) ==
    /\ pc' = "returned"
    /\ crawl_result' =
           IF CrawlHandles(kind) THEN [outcome |-> "returned", posts |-> CrawlPosts]
           ELSE [outcome |-> "raised", posts |-> <<>>]

\* _crawl_implementation ends: the finally block is next
ImplReturn(list) ==
    /\ impl' = "returned"
    /\ implPosts' = list
    /\ pendingExc' = "none"
    /\ pc' = "finally"
ImplRaise(kind) ==
    /\ impl' = "raised"
    /\ implPosts' = <<>>
    /\ pendingExc' = kind
    /\ pc' = "finally"

\* what a collection can yield: up to MaxCount posts of the platform
CrawledLists == {[i \in 1..n |-> [platform |-> crawler, id |-> i]] : n \in 0..MaxCount}

\* the for loop of _attempt_login: range(self.login_retry_count)
LoginLoopRunsOnceMore(n, retry) == n <= retry
LoginLoopRuns(n, retry) == n < retry

\* chromium.launch
CrawlLaunch ==
    /\ pc = "start"
    /\ \/ /\ browser' = "open"
          /\ pc' = "setup"
          /\ UNCHANGED crawl_result
       \/ /\ \E kind \in ExcKinds : CrawlRaise(kind)
          /\ UNCHANGED browser
    /\ UNCHANGED <<crawler, debug_mode, sessionLog, login_retry_count, has_credentials, session_file,
                   is_logged_in, session_loaded, attempt, loginLog, login_returned,
                   impl, pendingExc, didCollect, implPosts, debugWait,
                   varsParse, varsSave, varsCollect, varsLoop, varsExport, varsInit, varsInter>>

\* new_context and new_page, outside the inner try
CrawlSetup ==
    /\ pc = "setup"
    /\ \/ /\ pc' = IF crawler = "geeknews" THEN "collect" ELSE "load_session"
          /\ UNCHANGED crawl_result
       \/ \E kind \in ExcKinds : CrawlRaise(kind)
    /\ UNCHANGED <<crawler, debug_mode, sessionLog, login_retry_count, has_credentials, session_file,
                   is_logged_in, session_loaded, attempt, loginLog, login_returned,
                   impl, pendingExc, didCollect, implPosts, browser, debugWait,
                   varsParse, varsSave, varsCollect, varsLoop, varsExport, varsInit, varsInter>>

\* the finally block: the debug-mode wait (whatever ends it is swallowed), then
\* browser.close(); after it the pending exception, if any, goes on
CrawlFinally ==
    /\ pc = "finally"
    /\ debugWait' \in IF debug_mode THEN {"enter", "timeout", "error"} ELSE {"none"}
    /\ \/ /\ browser' = "closed"
          /\ IF pendingExc # "none" THEN CrawlRaise(pendingExc)
             ELSE /\ pc' = "returned"
                  /\ crawl_result' = [outcome |-> "returned", posts |-> CrawlPosts]
       \/ /\ \E kind \in ExcKinds : CrawlRaise(kind)    \* browser.close() raised
          /\ browser' = "close_raised"
    /\ UNCHANGED <<crawler, debug_mode, sessionLog, login_retry_count, has_credentials, session_file,
                   is_logged_in, session_loaded, attempt, loginLog, login_returned,
                   impl, pendingExc, didCollect, implPosts,
                   varsParse, varsSave, varsCollect, varsLoop, varsExport, varsInit, varsInter>>

\* _crawl_implementation goes on to its next step
ImplGoes(next) ==
    /\ pc' = next
    /\ UNCHANGED <<impl, implPosts, pendingExc>>

\* _save_session swallows its errors: the file is written (wrote) or left as
\* it was
SaveSession(wrote) == session_file' = (wrote \/ session_file)

\* ThreadsCrawler._load_session: restore the stored state and verify it; an
\* expired or unreadable session file is deleted
ThreadsLoadSession ==
    /\ pc = "load_session"
    /\ crawler = "threads"
    /\ IF session_file
       THEN \/ /\ is_logged_in' = TRUE
               /\ session_loaded' = TRUE
               /\ sessionLog' = sessionLog \o <<"read">>
               /\ UNCHANGED session_file
               /\ ImplGoes("goto")
            \/ /\ session_file' = FALSE
               /\ sessionLog' = sessionLog \o <<"read", "deleted">>
               /\ UNCHANGED <<is_logged_in, session_loaded>>
               /\ ImplGoes("goto")
            \/ /\ sessionLog' = sessionLog \o <<"read">>    \* unlink() raised
               /\ UNCHANGED <<is_logged_in, session_loaded, session_file>>
               /\ ImplRaise("Error")
       ELSE /\ sessionLog' = sessionLog \o <<"absent">>
            /\ UNCHANGED <<is_logged_in, session_loaded, session_file>>
            /\ ImplGoes("goto")
    /\ UNCHANGED <<crawler, debug_mode, login_retry_count, has_credentials,
                   attempt, loginLog, login_returned, didCollect, browser, debugWait,
                   crawl_result, varsParse, varsSave, varsCollect, varsLoop, varsExport, varsInit, varsInter>>

\* ThreadsCrawler._crawl_implementation, from page.goto to the login decision
ThreadsGoto ==
    /\ pc = "goto"
    /\ crawler = "threads"
    /\ \/ /\ \E kind \in ExcKinds : ImplRaise(kind)
          /\ UNCHANGED is_logged_in
       \/ /\ is_logged_in
          /\ ImplGoes("collect")
          /\ UNCHANGED is_logged_in
       \/ /\ ~is_logged_in
          /\ \E verified \in BOOLEAN :
                /\ is_logged_in' = verified
                /\ ImplGoes(IF verified THEN "collect" ELSE "login_start")
    /\ UNCHANGED <<crawler, debug_mode, sessionLog, login_retry_count, has_credentials, session_file,
                   session_loaded, attempt, loginLog, login_returned, didCollect,
                   browser, debugWait, crawl_result, varsParse, varsSave, varsCollect, varsLoop, varsExport, varsInit, varsInter>>

\* LinkedInCrawler / XCrawler._load_session
ProgressiveLoadSession(c) ==
    /\ pc = "load_session"
    /\ crawler = c
    /\ IF session_file
       THEN \/ /\ is_logged_in' = TRUE
               /\ session_loaded' = TRUE
               /\ sessionLog' = sessionLog \o <<"read">>
               /\ UNCHANGED session_file
               /\ ImplGoes("collect")
            \/ /\ session_file' = FALSE
               /\ sessionLog' = sessionLog \o <<"read", "deleted">>
               /\ UNCHANGED <<is_logged_in, session_loaded>>
               /\ ImplGoes("page_load")
            \/ /\ sessionLog' = sessionLog \o <<"read">>    \* unlink() raised
               /\ UNCHANGED <<is_logged_in, session_loaded, session_file>>
               /\ ImplRaise("Error")
       ELSE /\ sessionLog' = sessionLog \o <<"absent">>
            /\ UNCHANGED <<is_logged_in, session_loaded, session_file>>
            /\ ImplGoes("page_load")
    /\ UNCHANGED <<crawler, debug_mode, login_retry_count, has_credentials,
                   attempt, loginLog, login_returned, didCollect, browser, debugWait,
                   crawl_result, varsParse, varsSave, varsCollect, varsLoop, varsExport, varsInit, varsInter>>
LinkedinLoadSession == ProgressiveLoadSession("linkedin")
XLoadSession == ProgressiveLoadSession("x")

\* LinkedInCrawler / XCrawler._crawl_implementation, from _gradual_page_load
\* to the login decision: a failed page load returns the empty list
ProgressivePageLoad(c) ==
    /\ pc = "page_load"
    /\ crawler = c
    /\ \/ /\ ImplReturn(<<>>)
          /\ UNCHANGED is_logged_in
       \/ \E verified \in BOOLEAN :
             /\ is_logged_in' = verified
             /\ ImplGoes(IF verified THEN "collect" ELSE "login_start")
    /\ UNCHANGED <<crawler, debug_mode, sessionLog, login_retry_count, has_credentials, session_file,
                   session_loaded, attempt, loginLog, login_returned, didCollect,
                   browser, debugWait, crawl_result, varsParse, varsSave, varsCollect, varsLoop, varsExport, varsInit, varsInter>>
LinkedinPageLoad == ProgressivePageLoad("linkedin")
XPageLoad == ProgressivePageLoad("x")

\* _attempt_login before its loop: missing credentials are prompted for, and
\* an aborted prompt raises
LoginStart ==
    /\ pc = "login_start"
    /\ crawler \in LoginCrawlers
    /\ \/ /\ has_credentials' = TRUE
          /\ ImplGoes("login")
       \/ /\ ~has_credentials
          /\ ImplRaise("Error")
          /\ UNCHANGED has_credentials
    /\ UNCHANGED <<crawler, debug_mode, sessionLog, login_retry_count, session_file, is_logged_in,
                   session_loaded, attempt, loginLog, login_returned, didCollect,
                   browser, debugWait, crawl_result, varsParse, varsSave, varsCollect, varsLoop, varsExport, varsInit, varsInter>>

\* the test before every backoff wait: attempt < self.login_retry_count - 1,
\* where n is the loop index of the attempt (the attempts begun before it)
BackoffDue(n, retry) == n < retry - 1

\* a mutation: a failed attempt saves the session all the same
AttemptFailedSaving(backoff) ==
    /\ loginLog' = loginLog \o <<"attempt", "failed">>
                       \o (IF backoff THEN <<"backoff">> ELSE <<>>)
    /\ sessionLog' = sessionLog \o <<"attempt_failed", "save", "written">>
    /\ session_file' = TRUE
    /\ UNCHANGED <<is_logged_in, login_returned>>
    /\ \/ ImplGoes("login")
       \/ /\ backoff
          /\ \E kind \in ExcKinds : ImplRaise(kind)

\* an attempt ended without a verified login and the loop goes on; the backoff
\* wait of an except clause can itself raise, out of _attempt_login
AttemptFailed(backoff) ==
    /\ loginLog' = loginLog \o <<"attempt", "failed">>
                       \o (IF backoff THEN <<"backoff">> ELSE <<>>)
    /\ sessionLog' = sessionLog \o <<"attempt_failed">>
    /\ UNCHANGED <<is_logged_in, session_file, login_returned>>
    /\ \/ ImplGoes("login")
       \/ /\ backoff
          /\ \E kind \in ExcKinds : ImplRaise(kind)

\* an attempt found the login verified: _attempt_login returns True
AttemptVerified(save) ==
    /\ loginLog' = loginLog \o <<"attempt", "verified">>
    /\ is_logged_in' = TRUE
    /\ \E wrote \in IF save THEN BOOLEAN ELSE {FALSE} :
          /\ SaveSession(wrote)
          /\ sessionLog' = sessionLog \o <<"attempt_verified">>
                               \o (IF save THEN <<"save">> ELSE <<>>)
                               \o (IF wrote THEN <<"written">> ELSE <<>>)
    /\ login_returned' = "True"
    /\ ImplGoes("collect")

\* one pass of the loop of ThreadsCrawler._attempt_login.  Without a login
\* button the last attempt returns False at once, which is also what the loop's
\* end does (LoginGiveUp).
ThreadsLoginAttempt ==
    /\ pc = "login"
    /\ crawler = "threads"
    /\ LoginLoopRuns(attempt, login_retry_count)
    /\ attempt' = attempt + 1
    /\ \/ AttemptVerified(FALSE)    \* no login button, already logged in
       \/ AttemptVerified(TRUE)     \* login verified, session saved
       \/ AttemptFailed(BackoffDue(attempt, login_retry_count))
                                    \* no button, failed verification, except clauses
       \/ AttemptFailed(FALSE)      \* Instagram login page timed out: continue
    /\ UNCHANGED <<crawler, debug_mode, login_retry_count, has_credentials,
                   session_loaded, didCollect, browser, debugWait, crawl_result,
                   varsParse, varsSave, varsCollect, varsLoop, varsExport, varsInit, varsInter>>

\* one pass of the loop of LinkedInCrawler / XCrawler._attempt_login
ProgressiveLoginAttempt(c) ==
    /\ pc = "login"
    /\ crawler = c
    /\ LoginLoopRuns(attempt, login_retry_count)
    /\ attempt' = attempt + 1
    /\ \/ AttemptVerified(TRUE)
       \/ AttemptFailed(BackoffDue(attempt, login_retry_count))
    /\ UNCHANGED <<crawler, debug_mode, login_retry_count, has_credentials,
                   session_loaded, didCollect, browser, debugWait, crawl_result,
                   varsParse, varsSave, varsCollect, varsLoop, varsExport, varsInit, varsInter>>
LinkedinLoginAttempt == ProgressiveLoginAttempt("linkedin")
XLoginAttempt == ProgressiveLoginAttempt("x")

\* the loop of _attempt_login is over: return False.  The caller drops the
\* value and goes on.
LoginGiveUp ==
    /\ pc = "login"
    /\ crawler \in LoginCrawlers
    /\ ~LoginLoopRuns(attempt, login_retry_count)
    /\ login_returned' = "False"
    /\ ImplGoes("collect")
    /\ UNCHANGED <<crawler, debug_mode, sessionLog, login_retry_count, has_credentials, session_file,
                   is_logged_in, session_loaded, attempt, loginLog, didCollect,
                   browser, debugWait, crawl_result, varsParse, varsSave, varsCollect, varsLoop, varsExport, varsInit, varsInter>>

\* Threads / LinkedIn / X after the login step: the settling wait, then the
\* collection, whose result _crawl_implementation returns
LoginCrawlerCollect ==
    /\ pc = "collect"
    /\ crawler \in LoginCrawlers
    /\ \/ /\ \E kind \in ExcKinds : ImplRaise(kind)
          /\ UNCHANGED didCollect
       \/ /\ didCollect' = TRUE
          /\ \/ \E list \in CrawledLists : ImplReturn(list)
             \/ \E kind \in ExcKinds : ImplRaise(kind)
    /\ UNCHANGED <<crawler, debug_mode, sessionLog, login_retry_count, has_credentials, session_file,
                   is_logged_in, session_loaded, attempt, loginLog, login_returned,
                   browser, debugWait, crawl_result, varsParse, varsSave, varsCollect, varsLoop, varsExport, varsInit, varsInter>>

\* mutations of RedditNext: the crawl goes on after a failed login; the login
\* is tried again after a failed login
RedditGoesOn(login_success) == "collect"
RedditTriesAgain(login_success) == IF login_success THEN "collect" ELSE "r_login"

\* RedditCrawler._crawl_implementation after _login: "if not login_success:
\* return []"
RedditNext(login_success) == IF login_success THEN "collect" ELSE "abort"

\* the except clause of RedditCrawler._crawl_implementation: return [], after
\* _save_debug_html in debug mode, which can raise
RedditCaught ==
    \/ ImplReturn(<<>>)
    \/ /\ debug_mode
       /\ \E kind \in ExcKinds : ImplRaise(kind)

\* RedditCrawler._load_session: a session whose login is not visible is kept
\* on disk, an unreadable one is deleted
RedditLoadSession ==
    /\ pc = "load_session"
    /\ crawler = "reddit"
    /\ IF session_file
       THEN \/ /\ session_loaded' = TRUE                \* a login indicator is visible
               /\ sessionLog' = sessionLog \o <<"read">>
               /\ ImplGoes("collect")
               /\ UNCHANGED session_file
            \/ /\ sessionLog' = sessionLog \o <<"read", "expired">>  \* none is: return False
               /\ ImplGoes("r_login")
               /\ UNCHANGED <<session_loaded, session_file>>
            \/ /\ \E unlinked \in BOOLEAN :               \* the except clause
                     /\ session_file' = ~unlinked
                     /\ sessionLog' = sessionLog \o <<"read">>
                                          \o (IF unlinked THEN <<"deleted">> ELSE <<>>)
               /\ ImplGoes("r_login")
               /\ UNCHANGED session_loaded
       ELSE /\ sessionLog' = sessionLog \o <<"absent">>
            /\ ImplGoes("r_login")
            /\ UNCHANGED <<session_loaded, session_file>>
    /\ UNCHANGED <<crawler, debug_mode, login_retry_count, has_credentials, is_logged_in,
                   attempt, loginLog, login_returned, didCollect, browser, debugWait,
                   crawl_result, varsParse, varsSave, varsCollect, varsLoop, varsExport, varsInit, varsInter>>

\* RedditCrawler._login and what _crawl_implementation does with its result
RedditLogin ==
    /\ pc = "r_login"
    /\ crawler = "reddit"
    /\ attempt' = attempt + 1
    /\ \/ \E login_success \in BOOLEAN :
             /\ login_returned' = IF login_success THEN "True" ELSE "False"
             /\ loginLog' = loginLog \o <<"attempt",
                                IF login_success THEN "verified" ELSE "failed">>
             /\ IF RedditNext(login_success) = "abort"
                THEN /\ ImplReturn(<<>>)
                     /\ sessionLog' = sessionLog \o <<"attempt_failed">>
                     /\ UNCHANGED session_file
                ELSE /\ ImplGoes(RedditNext(login_success))
                     /\ \E wrote \in IF login_success THEN BOOLEAN ELSE {FALSE} :
                           /\ SaveSession(wrote)
                           /\ sessionLog' = sessionLog
                                  \o (IF login_success THEN <<"attempt_verified", "save">>
                                      ELSE <<"attempt_failed">>)
                                  \o (IF wrote THEN <<"written">> ELSE <<>>)
       \/ /\ debug_mode     \* _login's except clause raised in _save_debug_html
          /\ loginLog' = loginLog \o <<"attempt", "failed">>
          /\ sessionLog' = sessionLog \o <<"attempt_failed">>
          /\ RedditCaught
          /\ UNCHANGED <<login_returned, session_file>>
    /\ UNCHANGED <<crawler, debug_mode, login_retry_count, has_credentials, is_logged_in,
                   session_loaded, didCollect, browser, debugWait, crawl_result,
                   varsParse, varsSave, varsCollect, varsLoop, varsExport, varsInit, varsInter>>

\* RedditCrawler._crawl_implementation from page.goto to its return
RedditCollect ==
    /\ pc = "collect"
    /\ crawler = "reddit"
    /\ \/ /\ RedditCaught
          /\ UNCHANGED didCollect
       \/ /\ didCollect' = TRUE
          /\ \/ \E list \in CrawledLists : ImplReturn(list)
             \/ RedditCaught
    /\ UNCHANGED <<crawler, debug_mode, sessionLog, login_retry_count, has_credentials, session_file,
                   is_logged_in, session_loaded, attempt, loginLog, login_returned,
                   browser, debugWait, crawl_result, varsParse, varsSave, varsCollect, varsLoop, varsExport, varsInit, varsInter>>

\* GeekNewsCrawler._crawl_implementation: no session, no login
GeekNewsCrawl ==
    /\ pc = "collect"
    /\ crawler = "geeknews"
    /\ \/ /\ \E kind \in ExcKinds : ImplRaise(kind)
          /\ UNCHANGED didCollect
       \/ /\ didCollect' = TRUE
          /\ \E list \in CrawledLists : ImplReturn(list)
    /\ UNCHANGED <<crawler, debug_mode, sessionLog, login_retry_count, has_credentials, session_file,
                   is_logged_in, session_loaded, attempt, loginLog, login_returned,
                   browser, debugWait, crawl_result, varsParse, varsSave, varsCollect, varsLoop, varsExport, varsInit, varsInter>>

Crawlers == {"threads", "linkedin", "x", "reddit", "geeknews"}

\* a crawler as its constructor leaves it: the retry count and the credentials
\* come from the environment (RedditCrawler refuses to start without them),
\* the session file from an earlier run
InitCrawl ==
    /\ IdleParse
    /\ IdleSave
    /\ IdleCollect
    /\ crawler \in Crawlers
    /\ debug_mode \in BOOLEAN
    /\ login_retry_count \in IF crawler \in LoginCrawlers THEN 0..MaxRetry ELSE {0}
    /\ has_credentials \in
           IF crawler \in LoginCrawlers THEN BOOLEAN
           ELSE IF crawler = "reddit" THEN {TRUE} ELSE {FALSE}
    /\ session_file \in IF crawler = "geeknews" THEN {FALSE} ELSE BOOLEAN
    /\ is_logged_in = FALSE
    /\ session_loaded = FALSE
    /\ pc = "start"
    /\ attempt = 0
    /\ loginLog = <<>>
    /\ login_returned = "none"
    /\ impl = "none"
    /\ pendingExc = "none"
    /\ didCollect = FALSE
    /\ implPosts = <<>>
    /\ browser = "none"
    /\ debugWait = "none"
    /\ crawl_result = Running
    /\ sessionLog = <<>>
    /\ IdleLoop
    /\ IdleExport
    /\ IdleInit
    /\ IdleInter

NextCrawl ==
    \/ CrawlLaunch
    \/ CrawlSetup
    \/ ThreadsLoadSession
    \/ ThreadsGoto
    \/ LinkedinLoadSession
    \/ XLoadSession
    \/ LinkedinPageLoad
    \/ XPageLoad
    \/ LoginStart
    \/ ThreadsLoginAttempt
    \/ LinkedinLoginAttempt
    \/ XLoginAttempt
    \/ LoginGiveUp
    \/ LoginCrawlerCollect
    \/ RedditLoadSession
    \/ RedditLogin
    \/ RedditCollect
    \/ GeekNewsCrawl
    \/ CrawlFinally

SpecCrawl == InitCrawl /\ [][NextCrawl]_vars

(***************************************************************************)
(* Properties of SpecCrawl                                                 *)
(***************************************************************************)
CrawlOver == pc = "returned"

\* C6: BaseCrawler.crawl never propagates an exception to its caller:
\* whatever the browser launch, the page setup or _crawl_implementation
\* raises, crawl returns a list of posts, and that list is empty whenever
\* _crawl_implementation raised (or was never reached).
C6_CrawlNeverRaises ==
    CrawlOver =>
        /\ crawl_result.outcome = "returned"
        /\ impl # "returned" => crawl_result.posts = <<>>
        /\ impl = "returned" => crawl_result.posts = implPosts

\* crawl is over after _crawl_implementation raised an exception that is not
\* a timeout
C6_Witness ==
    /\ CrawlOver
    /\ impl = "raised"
    /\ pendingExc = "Error"
    /\ browser = "closed"

\* the login of this run failed for good: no session restored, and the login
\* routine returned False
LoginFailed ==
    /\ ~session_loaded
    /\ login_returned = "False"

\* C7, as stated: in Threads, LinkedIn, X and Reddit, when no valid session
\* was restored and login fails on all attempts, the crawl returns an empty
\* result set, no post collection is performed, and no error is raised.
C7_EmptyAfterLoginFailure ==
    (CrawlOver /\ crawler \in LoginCrawlers \cup {"reddit"} /\ LoginFailed) =>
        /\ crawl_result.outcome = "returned"
        /\ crawl_result.posts = <<>>
        /\ ~didCollect

\* C7, amended: after a login failure no error is raised.  Reddit returns the
\* empty list without collecting.  Threads, LinkedIn and X drop the result of
\* _attempt_login: they go on to the collection, and crawl returns whatever
\* _crawl_implementation returned.
C7_LoginFailureByCrawler ==
    (CrawlOver /\ LoginFailed) =>
        /\ crawl_result.outcome = "returned"
        /\ crawler = "reddit" => (crawl_result.posts = <<>> /\ ~didCollect)
        /\ (crawler \in LoginCrawlers /\ impl = "returned") =>
               (didCollect /\ crawl_result.posts = implPosts)

\* a Threads / LinkedIn / X crawl whose login failed returned posts
C7_Witness ==
    /\ CrawlOver
    /\ LoginFailed
    /\ crawler \in LoginCrawlers
    /\ attempt = login_retry_count
    /\ attempt > 0
    /\ Len(crawl_result.posts) > 0

\* a Reddit crawl whose login failed ended with the empty list
C7_RedditAborted ==
    /\ CrawlOver
    /\ LoginFailed
    /\ crawler = "reddit"
    /\ crawl_result.posts = <<>>

Last(log) == log[Len(log)]
Count(log, event) == Cardinality({i \in 1..Len(log) : log[i] = event})

\* C8: in Threads, LinkedIn and X, _attempt_login makes at most
\* login_retry_count attempts, makes no further attempt once the login is
\* verified (it returns True at that attempt), and returns False only after
\* login_retry_count attempts have all failed.
C8_AttemptsBounded ==
    crawler \in LoginCrawlers =>
        /\ attempt <= login_retry_count
        /\ Count(loginLog, "attempt") = attempt
        /\ \A i \in 1..Len(loginLog) :
               loginLog[i] = "verified" => (i = Len(loginLog) /\ login_returned = "True")
        /\ login_returned = "True" => (attempt > 0 /\ Last(loginLog) = "verified")
        /\ login_returned = "False" =>
               /\ attempt = login_retry_count
               /\ Count(loginLog, "failed") = login_retry_count

\* _attempt_login returned True at a retry, with attempts to spare, and the
\* crawl went on to its end
C8_Witness ==
    /\ crawler \in LoginCrawlers
    /\ login_returned = "True"
    /\ attempt > 1
    /\ attempt < login_retry_count
    /\ CrawlOver

\* _attempt_login returned False after the last of several attempts
C8_Exhausted ==
    /\ crawler \in LoginCrawlers
    /\ login_returned = "False"
    /\ attempt = login_retry_count
    /\ attempt > 1

\* C9, as stated: when a Reddit login attempt fails, RedditCrawler retries the
\* login (more than one attempt in total) before it aborts the crawl with an
\* empty result.
C9_RedditRetries ==
    (crawler = "reddit" /\ CrawlOver /\ login_returned = "False") => attempt > 1

\* C9, amended: RedditCrawler makes one login attempt; when it fails the crawl
\* is aborted with an empty result, without a retry and without collecting.
C9_RedditSingleAttempt ==
    crawler = "reddit" =>
        /\ attempt <= 1
        /\ login_returned # "none" => attempt = 1
        /\ (CrawlOver /\ login_returned = "False") =>
               /\ crawl_result = [outcome |-> "returned", posts |-> <<>>]
               /\ ~didCollect

\* a Reddit crawl aborted after its one failed login attempt
C9_Witness ==
    /\ crawler = "reddit"
    /\ CrawlOver
    /\ login_returned = "False"
    /\ attempt = 1
    /\ loginLog = <<"attempt", "failed">>

\* between a failed attempt and the next attempt there is a backoff wait, and
\* no backoff wait follows the final attempt
BackoffBetween(log, retry) ==
    /\ \A i \in 1..(Len(log) - 1) :
           log[i] = "failed" => log[i + 1] # "attempt"
    /\ \A i \in 1..Len(log) :
           log[i] = "backoff" =>
               Count(SubSeq(log, 1, i), "attempt") < retry

\* C10, as stated: in Threads, LinkedIn and X, whenever a login attempt fails
\* and another attempt follows, a randomized backoff wait occurs between the
\* two attempts; no backoff wait follows the final attempt.
C10_BackoffBetweenAttempts ==
    crawler \in LoginCrawlers => BackoffBetween(loginLog, login_retry_count)

\* LinkedIn and X do wait between attempts, and no crawler waits after the
\* final attempt
C10_ProgressiveBackoff ==
    /\ crawler \in {"linkedin", "x"} => BackoffBetween(loginLog, login_retry_count)
    /\ crawler = "threads" =>
           \A i \in 1..Len(loginLog) :
               loginLog[i] = "backoff" =>
                   Count(SubSeq(loginLog, 1, i), "attempt") < login_retry_count

\* Threads began a second attempt right after a failed one
C10_ThreadsNoBackoff ==
    /\ crawler = "threads"
    /\ Len(loginLog) >= 3
    /\ loginLog[1] = "attempt"
    /\ loginLog[2] = "failed"
    /\ loginLog[3] = "attempt"

SessionCrawlers == LoginCrawlers \cup {"reddit"}
AttemptEvents == {"attempt_failed", "attempt_verified"}

\* C11: within one crawl the session file is looked for, and read when
\* present, before any login attempt; it is written only after a login
\* attempt whose verification succeeded; a crawl whose restored session
\* verifies as logged in makes no login attempt and does not rewrite the file.
C11_SessionOrder ==
    crawler \in SessionCrawlers =>
        /\ \A i \in 1..Len(sessionLog) :
               /\ sessionLog[i] \in AttemptEvents => sessionLog[1] \in {"read", "absent"}
               /\ sessionLog[i] \in {"read", "absent"} => i = 1
               /\ sessionLog[i] = "written" =>
                      /\ i >= 3
                      /\ sessionLog[i - 1] = "save"
                      /\ sessionLog[i - 2] = "attempt_verified"
        /\ session_loaded =>
               /\ attempt = 0
               /\ sessionLog = <<"read">>
               /\ session_file

\* a crawl restored its session, made no login attempt and collected
C11_Witness ==
    /\ crawler \in SessionCrawlers
    /\ CrawlOver
    /\ session_loaded
    /\ didCollect
    /\ sessionLog = <<"read">>

\* a crawl read an unusable session file, failed a login attempt, verified the
\* next one and wrote the file
C11_WrittenAfterLogin ==
    /\ crawler \in LoginCrawlers
    /\ sessionLog = <<"read", "deleted", "attempt_failed", "attempt_verified", "save", "written">>

InLog(event) == \E i \in 1..Len(sessionLog) : sessionLog[i] = event

\* C12: whenever _attempt_login returns True in Threads, LinkedIn or X, the
\* session state has been saved to the session file during that call.
C12_SavedOnLoginSuccess ==
    (crawler \in LoginCrawlers /\ login_returned = "True") =>
        (InLog("written") /\ session_file)

\* LinkedIn and X call _save_session on every path of _attempt_login that
\* returns True
C12_ProgressiveSaveCalled ==
    (crawler \in {"linkedin", "x"} /\ login_returned = "True") => InLog("save")

\* Threads returned True from _attempt_login without calling _save_session
C12_ThreadsUnsaved ==
    /\ crawler = "threads"
    /\ login_returned = "True"
    /\ ~InLog("save")
    /\ ~session_file

CloseCalled == browser \in {"closed", "close_raised"}

\* C15: once BaseCrawler.crawl has launched the browser, browser.close() is
\* called before crawl returns on every path, including when page setup or
\* _crawl_implementation raises; in debug mode the wait for user input that
\* precedes the close ends with the input or with the 300-second timeout.
C15_BrowserClosed ==
    (CrawlOver /\ browser # "none") =>
        /\ CloseCalled
        /\ debug_mode => debugWait \in {"enter", "timeout", "error"}

\* once _crawl_implementation was entered, browser.close() is called before
\* crawl returns, whether it returned or raised, and in debug mode after the
\* bounded wait
C15_ClosedAfterImplementation ==
    (CrawlOver /\ impl # "none") =>
        /\ CloseCalled
        /\ debugWait # "none" <=> debug_mode

\* new_context or new_page raised: crawl returned with the browser launched
\* and browser.close() never called
C15_SetupRaisedNoClose ==
    /\ CrawlOver
    /\ browser = "open"
    /\ impl = "none"
    /\ crawl_result = [outcome |-> "returned", posts |-> <<>>]

\* _load_session has just returned False
LoadSessionReturnedFalse ==
    /\ crawler \in SessionCrawlers
    /\ pc \in {"goto", "page_load", "r_login"}
    /\ ~session_loaded
    /\ attempt = 0

\* C19: in every crawler with session support (Threads, LinkedIn, X, Reddit),
\* after _load_session returns False no session file remains at session_path.
C19_NoFileAfterFailedLoad == LoadSessionReturnedFalse => ~session_file

\* Threads, LinkedIn and X delete the file on every path of _load_session
\* that returns False
C19_LoginCrawlersDelete ==
    (LoadSessionReturnedFalse /\ crawler \in LoginCrawlers) => ~session_file

\* Reddit found no login indicator with the restored cookies, returned False
\* and left the session file in place
C19_RedditExpiredKept ==
    /\ crawler = "reddit"
    /\ pc = "r_login"
    /\ sessionLog = <<"read", "expired">>
    /\ session_file

\* C20: whenever a Threads, LinkedIn or X crawl reaches post collection with
\* is_logged_in = True, a session file exists at session_path.
C20_FileWhenLoggedIn ==
    (crawler \in LoginCrawlers /\ pc = "collect" /\ is_logged_in) => session_file

\* a crawl that restored its session, or whose verified login attempt wrote
\* the file, reaches the collection with the file in place
C20_FileWhenRestoredOrWritten ==
    (crawler \in LoginCrawlers /\ pc = "collect" /\ is_logged_in
     /\ (session_loaded \/ InLog("written"))) => session_file

\* _load_session deleted the file, the page then verified as logged in
\* without a login attempt, and the collection is reached with no file
C20_LoggedInNoFile ==
    /\ crawler \in LoginCrawlers
    /\ pc = "collect"
    /\ is_logged_in
    /\ sessionLog = <<"read", "deleted">>
    /\ attempt = 0
    /\ ~session_file

\* C16: for every requested count >= 0 and every sequence of page states,
\* each crawler's collection returns at most count posts.
C16_AtMostCount ==
    colPc = "done" => Len(colResult.posts) <= target_count

\* a collection gathered a post beyond the requested count and returned
\* exactly the requested count (Threads with count 0 meets a valid post before
\* it tests the target)
C16_Witness ==
    /\ colPc = "done"
    /\ colResult.ended = "returned"
    /\ Len(colPosts) > target_count
    /\ Len(colResult.posts) = target_count

\* a collection returned the full requested count, one post or more
C16_FullCount ==
    /\ colPc = "done"
    /\ target_count >= 1
    /\ Len(colResult.posts) = target_count

(***************************************************************************)
(* SpecLoop: the collection loops by their counters only.  A round adds    *)
(* some number of posts to the list; which posts they are is SpecCollect's *)
(* matter.  The target count goes up to MaxTarget, where 90% of the target *)
(* and the target differ.                                                  *)
(***************************************************************************)
MaxTarget == 10
LoopCrawlers == {"threads", "linkedin", "x", "reddit"}

Max(a, b) == IF a >= b THEN a ELSE b

\* mutations: half of the target is near enough; the count of empty rounds
\* is never reset
NearTargetHalf(len, target) == 2 * len >= target
EmptyRoundsNoReset(new_posts_in_round, count) ==
    IF new_posts_in_round = 0 THEN count + 1 ELSE count

\* len(all_posts) >= target_count * 0.9.  For the targets up to MaxTarget + 1
\* the binary64 product is 9.0 at target 10 and is no integer at the other
\* positive targets, so the test is the one on the integers.
NearTarget(len, target) == 10 * len >= 9 * target

\* no_new_posts_count after a round that added new_posts_in_round posts
EmptyRounds(new_posts_in_round, count) ==
    IF new_posts_in_round = 0 THEN count + 1 ELSE 0

\* history: the round is counted, and whether it added nothing is kept for
\* the last three rounds
PushRound(window, empty) ==
    IF Len(window) < 3 THEN Append(window, empty) ELSE Append(Tail(window), empty)
RoundDone(added) ==
    /\ loopIter' = loopIter + 1
    /\ loopWindow' = PushRound(loopWindow, added = 0)
    /\ loopEmptyTotal' = IF added = 0 THEN loopEmptyTotal + 1 ELSE loopEmptyTotal

\* one round of the for loop of ThreadsCrawler._extract_posts_incrementally:
\* the new valid posts are appended one by one and the function returns at
\* the first append that reaches the target; after the elements come the test
\* of the empty rounds, the test of 90% of the target, and the end of range(15)
ThreadsRound ==
    /\ loopCrawler = "threads"
    /\ loopEnd = "running"
    /\ loopScroll < threads_max_scroll_attempts
    /\ \E added \in 0..Max(1, loopTarget - loopLen) :
          LET len     == loopLen + added
              empties == EmptyRounds(added, loopEmpty)
          IN  /\ RoundDone(added)
              /\ loopLen' = len
              /\ IF added >= 1 /\ len >= loopTarget
                 THEN /\ loopEnd' = "target"
                      /\ UNCHANGED <<loopEmpty, loopScroll>>
                 ELSE /\ loopEmpty' = empties
                      /\ IF added = 0 /\ empties >= 3
                         THEN /\ loopEnd' = "empty_rounds"
                              /\ UNCHANGED loopScroll
                         ELSE IF NearTarget(len, loopTarget)
                         THEN /\ loopEnd' = "near_target"
                              /\ UNCHANGED loopScroll
                         ELSE /\ loopScroll' = loopScroll + 1
                              /\ loopEnd' = IF loopScroll + 1 < threads_max_scroll_attempts
                                            THEN "running" ELSE "budget"
    /\ UNCHANGED <<loopCrawler, loopTarget, varsParse, varsSave, varsCollect, varsCrawl,
                   varsExport, varsInit, varsInter>>

\* the while test of the progressive loops
LoopGoesOn(len, target, scroll, max) == len < target /\ scroll < max

\* one pass of the while loop of LinkedInCrawler / XCrawler
\* ._progressive_post_collection: the for loop stops at the target, the loop
\* is left when the target is reached, and only a round without a new post
\* scrolls
ProgressiveRound(c) ==
    /\ loopCrawler = c
    /\ loopEnd = "running"
    /\ LoopGoesOn(loopLen, loopTarget, loopScroll, ProgressiveMax(c))
    /\ \E added \in 0..(loopTarget - loopLen) :
          /\ RoundDone(added)
          /\ loopLen' = loopLen + added
          /\ IF loopLen + added >= loopTarget
             THEN /\ loopEnd' = "target"
                  /\ UNCHANGED loopScroll
             ELSE /\ loopScroll' = IF added = 0 THEN loopScroll + 1 ELSE loopScroll
                  /\ UNCHANGED loopEnd
    /\ UNCHANGED <<loopCrawler, loopTarget, loopEmpty, varsParse, varsSave, varsCollect,
                   varsCrawl, varsExport, varsInit, varsInter>>

\* the while test fails: return posts[:target_count]
ProgressiveExit(c) ==
    /\ loopCrawler = c
    /\ loopEnd = "running"
    /\ ~LoopGoesOn(loopLen, loopTarget, loopScroll, ProgressiveMax(c))
    /\ loopEnd' = IF loopLen >= loopTarget THEN "target" ELSE "budget"
    /\ UNCHANGED <<loopCrawler, loopTarget, loopLen, loopScroll, loopEmpty, loopIter,
                   loopWindow, loopEmptyTotal, varsParse, varsSave, varsCollect,
                   varsCrawl, varsExport, varsInit, varsInter>>

LinkedinRound == ProgressiveRound("linkedin")
LinkedinExit == ProgressiveExit("linkedin")
XRound == ProgressiveRound("x")
XExit == ProgressiveExit("x")

\* one pass of the while loop of RedditCrawler._progressive_post_collection:
\* every round that does not reach the target scrolls; Post(...) is built
\* outside any try, so a post_data it rejects ends the loop with the exception
RedditRound ==
    /\ loopCrawler = "reddit"
    /\ loopEnd = "running"
    /\ LoopGoesOn(loopLen, loopTarget, loopScroll, reddit_max_scroll_attempts)
    /\ \E added \in 0..(loopTarget - loopLen) :
          /\ RoundDone(added)
          /\ loopLen' = loopLen + added
          /\ \/ /\ loopLen + added < loopTarget
                /\ loopEnd' = "raised"
                /\ UNCHANGED loopScroll
             \/ IF loopLen + added >= loopTarget
                THEN /\ loopEnd' = "target"
                     /\ UNCHANGED loopScroll
                ELSE /\ loopScroll' = loopScroll + 1
                     /\ UNCHANGED loopEnd
    /\ UNCHANGED <<loopCrawler, loopTarget, loopEmpty, varsParse, varsSave, varsCollect,
                   varsCrawl, varsExport, varsInit, varsInter>>

RedditExit ==
    /\ loopCrawler = "reddit"
    /\ loopEnd = "running"
    /\ ~LoopGoesOn(loopLen, loopTarget, loopScroll, reddit_max_scroll_attempts)
    /\ loopEnd' = IF loopLen >= loopTarget THEN "target" ELSE "budget"
    /\ UNCHANGED <<loopCrawler, loopTarget, loopLen, loopScroll, loopEmpty, loopIter,
                   loopWindow, loopEmptyTotal, varsParse, varsSave, varsCollect,
                   varsCrawl, varsExport, varsInit, varsInter>>

InitLoop ==
    /\ loopCrawler \in LoopCrawlers
    /\ loopTarget \in 0..MaxTarget
    /\ loopLen = 0
    /\ loopScroll = 0
    /\ loopEmpty = 0
    /\ loopIter = 0
    /\ loopWindow = <<>>
    /\ loopEmptyTotal = 0
    /\ loopEnd = "running"
    /\ IdleParse
    /\ IdleSave
    /\ IdleCollect
    /\ IdleCrawl
    /\ IdleExport
    /\ IdleInit
    /\ IdleInter

NextLoop ==
    \/ ThreadsRound
    \/ LinkedinRound
    \/ LinkedinExit
    \/ XRound
    \/ XExit
    \/ RedditRound
    \/ RedditExit

SpecLoop == InitLoop /\ [][NextLoop]_vars

LoopOver == loopEnd \notin {"idle", "running"}
ThreeEmptyRounds == loopWindow = <<TRUE, TRUE, TRUE>>
ScrollBudget(c) ==
    IF c = "threads" THEN threads_max_scroll_attempts
    ELSE IF c = "linkedin" THEN linkedin_max_scroll_attempts
    ELSE IF c = "x" THEN x_max_scroll_attempts
    ELSE reddit_max_scroll_attempts

C13_RedditRaised ==
    /\ loopCrawler = "reddit"
    /\ loopEnd = "raised"
    /\ loopLen < loopTarget
    /\ loopScroll < reddit_max_scroll_attempts

\* LinkedIn and X stop short of the target only with the scroll budget used up
C13_ProgressiveBudgetOnly ==
    (loopCrawler \in {"linkedin", "x"} /\ LoopOver /\ loopLen < loopTarget) =>
        loopScroll = ScrollBudget(loopCrawler)

\* C17: every progressive collection loop terminates whatever the page
\* returns: Threads performs at most 15 extraction rounds, Reddit at most 10
\* iterations, and the LinkedIn and X loops at most target_count +
\* max_scroll_attempts iterations, because each of their iterations either
\* adds at least one post or consumes one scroll attempt.
C17_IterationsBounded ==
    /\ loopCrawler = "threads" => loopIter <= threads_max_scroll_attempts
    /\ loopCrawler = "reddit" => loopIter <= reddit_max_scroll_attempts
    /\ loopCrawler \in {"linkedin", "x"} => loopIter <= loopLen + loopScroll
    /\ loopCrawler = "linkedin" => loopIter <= loopTarget + linkedin_max_scroll_attempts
    /\ loopCrawler = "x" => loopIter <= loopTarget + x_max_scroll_attempts
    /\ loopEnd = "running" => ENABLED NextLoop

\* an X loop that ran one iteration per post and one per scroll attempt
C17_Witness ==
    /\ loopCrawler = "x"
    /\ LoopOver
    /\ loopTarget >= 2
    /\ loopScroll = x_max_scroll_attempts
    /\ loopIter = loopTarget - 1 + x_max_scroll_attempts

\* Threads ran its 15 rounds, Reddit its 10 iterations
C17_ThreadsAllRounds ==
    loopCrawler = "threads" /\ LoopOver /\ loopIter = threads_max_scroll_attempts
C17_RedditAllRounds ==
    loopCrawler = "reddit" /\ LoopOver /\ loopIter = reddit_max_scroll_attempts

TrailingEmpty(window) ==
    LET n == Len(window)
    IN  IF n = 0 \/ ~window[n] THEN 0
        ELSE IF n = 1 \/ ~window[n - 1] THEN 1
        ELSE IF n = 2 \/ ~window[n - 2] THEN 2
        ELSE 3

\* C18: Threads incremental extraction ends as soon as 3 consecutive rounds
\* have added no new valid post; a round that adds at least one post resets
\* the empty-round counter to 0, so empty rounds that are not consecutive
\* never end the extraction by this rule.
C18_ThreeEmptyRounds ==
    loopCrawler = "threads" =>
        /\ ThreeEmptyRounds <=> loopEnd = "empty_rounds"
        /\ loopEnd = "running" => loopEmpty = TrailingEmpty(loopWindow)
        /\ (loopEnd = "running" /\ loopWindow # <<>> /\ ~loopWindow[Len(loopWindow)]) =>
               loopEmpty = 0

\* the extraction ended on three empty rounds in a row after an earlier empty
\* round that a round with new posts had cancelled
C18_Witness ==
    /\ loopCrawler = "threads"
    /\ loopEnd = "empty_rounds"
    /\ loopEmptyTotal > 3
    /\ loopLen > 0

\* the extraction has seen three empty rounds or more, never three in a row,
\* and goes on
C18_ScatteredEmptyRounds ==
    /\ loopCrawler = "threads"
    /\ loopEnd = "running"
    /\ loopEmptyTotal >= 3

(***************************************************************************)
(* SpecExport: SheetsExporter.export_posts is called once on a post list.  *)
(* An Optional[int] field of a Post is <<>> for None and <<n>> for n; in    *)
(* the payload, as in JSON, a count is a number.                           *)
(***************************************************************************)
NoInt == <<>>
OptInts == {NoInt, <<0>>, <<7>>}

\* a Post of src/models.py with all its fields
ExportPost(platform, url, n, m) ==
    [platform |-> platform, author |-> "alice", content |-> "a post worth sending",
     timestamp |-> "2h", url |-> url, likes |-> n, comments |-> m, reposts |-> n,
     shares |-> m, views |-> n]
ExportPool ==
    {ExportPost(pu[1], pu[2], n, m) :
        pu \in {<<"threads", None>>, <<"x", "u1">>}, n \in OptInts, m \in {NoInt, <<2>>}}
ExportPlatforms == {"threads", "x"}

\* post.likes or 0: the default stands in for None and for 0
IntOr(v, default) == IF v = NoInt \/ v = <<0>> THEN default ELSE v[1]

\* a mutation: the reposts are sent as the shares
serialize_post_reposts(post) ==
    [author    |-> Or(post.author, ""),
     content   |-> Or(post.content, ""),
     timestamp |-> Or(post.timestamp, ""),
     likes     |-> IntOr(post.likes, 0),
     comments  |-> IntOr(post.comments, 0),
     shares    |-> IntOr(post.reposts, 0),
     views     |-> IntOr(post.views, 0),
     url       |-> Or(post.url, ""),
     platform  |-> Or(post.platform, "")]

\* SheetsExporter._serialize_post
serialize_post(post) ==
    [author    |-> Or(post.author, ""),
     content   |-> Or(post.content, ""),
     timestamp |-> Or(post.timestamp, ""),
     likes     |-> IntOr(post.likes, 0),
     comments  |-> IntOr(post.comments, 0),
     shares    |-> IntOr(post.shares, 0),
     views     |-> IntOr(post.views, 0),
     url       |-> Or(post.url, ""),
     platform  |-> Or(post.platform, "")]

\* payload of export_posts
Payload(posts, platform) ==
    [metadata |-> [platform    |-> platform,
                   total_posts |-> Len(posts),
                   crawled_at  |-> ClockNow],
     posts    |-> [i \in 1..Len(posts) |-> serialize_post(posts[i])]]

\* how requests.post can end: an exception, or a response with a status and
\* a body; the body is no JSON, a JSON value that is no object, or an object
\* whose success field is missing or holds a JSON value
SuccessValues == {"missing", "true", "false", "null", "empty string", "string", "zero", "one"}
JsonTruthy(value) == value \in {"true", "string", "one"}
Bodies ==
    {[json |-> "invalid", success |-> "missing"], [json |-> "list", success |-> "missing"]}
    \cup [json : {"object"}, success : SuccessValues]
Answers ==
    [kind : {"Timeout", "ConnectionError", "Error"}, status : {0},
     body : {[json |-> "invalid", success |-> "missing"]}]
    \cup [kind : {"response"}, status : {200}, body : Bodies]
    \cup [kind : {"response"}, status : {500},
          body : {[json |-> "invalid", success |-> "missing"],
                  [json |-> "object", success |-> "true"]}]

\* the exception raised inside the try block, "none" when there is none:
\* requests.post raises; response.json() raises on a body that is no JSON;
\* result.get raises AttributeError on a JSON value that is no object
ExportRaises(answer) ==
    IF answer.kind # "response" THEN answer.kind
    ELSE IF answer.status # 200 THEN "none"
    ELSE IF answer.body.json = "invalid" THEN "JSONDecodeError"
    ELSE IF answer.body.json # "object" THEN "AttributeError"
    ELSE "none"

\* a mutation: only the three named except clauses
ExportCatchesNamed(kind) ==
    kind \in {"Timeout", "ConnectionError", "JSONDecodeError"}

\* the except clauses of export_posts: Timeout, ConnectionError,
\* json.JSONDecodeError, and Exception, which takes all the others
ExportCatches(kind) ==
    \/ kind \in {"Timeout", "ConnectionError", "JSONDecodeError"}
    \/ kind \in {"Error", "AttributeError"}

\* what export_posts returns once requests.post has ended
ExportResult(answer) ==
    IF ExportRaises(answer) # "none"
    THEN IF ExportCatches(ExportRaises(answer)) THEN "False" ELSE "raised"
    ELSE IF answer.status = 200
    THEN IF JsonTruthy(answer.body.success) THEN "True" ELSE "False"
    ELSE "False"

\* export_posts: without a URL nothing is sent; otherwise the payload is
\* posted and the answer decides the result
ExportPosts ==
    /\ expReturn = "none"
    /\ IF ~webapp_url
       THEN /\ expReturn' = "False"
            /\ UNCHANGED <<expPayload, expAnswer>>
       ELSE /\ expPayload' = Payload(expPosts, expPlatform)
            /\ \E answer \in Answers :
                  /\ expAnswer' = answer
                  /\ expReturn' = ExportResult(answer)
    /\ UNCHANGED <<webapp_url, expPosts, expPlatform, varsParse, varsSave, varsCollect,
                   varsCrawl, varsLoop, varsInit, varsInter>>

\* SheetsExporter.__init__ raises without a URL, so an exporter has one
InitExport ==
    /\ webapp_url = TRUE
    /\ expPosts \in PostLists(ExportPool)
    /\ expPlatform \in ExportPlatforms
    /\ expPayload = NoPayload
    /\ expReturn = "none"
    /\ expAnswer = NoAnswer
    /\ IdleParse
    /\ IdleSave
    /\ IdleCollect
    /\ IdleCrawl
    /\ IdleLoop
    /\ IdleInit
    /\ IdleInter

NextExport == ExportPosts

SpecExport == InitExport /\ [][NextExport]_vars

\* what the payload is to hold for a field of the JSON file's post object
SentCount(v) == IF v = NoInt THEN 0 ELSE v[1]
SentText(v) == IF v = None THEN "" ELSE v

\* C14: the payload of export_posts carries the data of the JSON file for
\* the same post list: metadata.total_posts is the list length, there is one
\* entry per post in input order, and each entry has the post's author,
\* content, timestamp, platform, url, likes, comments, shares and views, with
\* 0 for an absent count and the empty string for an absent url.
C14_PayloadMatchesFile ==
    expPayload # NoPayload =>
        LET file == OutputData(expPosts)
        IN  /\ expPayload.metadata.total_posts = Len(expPosts)
            /\ expPayload.metadata.total_posts = file.metadata.total_posts
            /\ Len(expPayload.posts) = Len(file.posts)
            /\ \A i \in 1..Len(expPosts) :
                  LET entry == expPayload.posts[i]
                      saved == file.posts[i]
                  IN  /\ DOMAIN entry = {"author", "content", "timestamp", "platform",
                                         "url", "likes", "comments", "shares", "views"}
                      /\ entry.author = saved.author
                      /\ entry.content = saved.content
                      /\ entry.timestamp = saved.timestamp
                      /\ entry.platform = saved.platform
                      /\ entry.url = SentText(saved.url)
                      /\ entry.likes = SentCount(saved.likes)
                      /\ entry.comments = SentCount(saved.comments)
                      /\ entry.shares = SentCount(saved.shares)
                      /\ entry.views = SentCount(saved.views)

\* a payload was sent for two posts or more, one with no url and no likes,
\* sent as "" and 0, and one with a url and 7 likes
C14_Witness ==
    /\ expReturn = "True"
    /\ Len(expPosts) >= 2
    /\ expPosts[1].url = None
    /\ expPosts[1].likes = NoInt
    /\ expPayload.posts[1].url = ""
    /\ expPayload.posts[1].likes = 0
    /\ expPosts[2].url = "u1"
    /\ expPayload.posts[2].likes = 7
    /\ expPosts[2].shares # expPosts[2].reposts

\* C21: export_posts returns True exactly when the webhook answers with HTTP
\* status 200 and a JSON body whose success field is truthy; for a timeout, a
\* connection error, a non-200 status, a body that is not valid JSON, or a
\* body with success false it returns False, and it never raises.
C21_ExportResult ==
    expReturn # "none" =>
        /\ expReturn \in {"True", "False"}
        /\ expReturn = "True" <=>
               /\ expAnswer.kind = "response"
               /\ expAnswer.status = 200
               /\ expAnswer.body.json = "object"
               /\ expAnswer.body.success \in {"true", "string", "one"}

\* the webhook answered 200 with a JSON value that has no success field to
\* read, and export_posts returned False
C21_Witness ==
    /\ expReturn = "False"
    /\ expAnswer.kind = "response"
    /\ expAnswer.status = 200
    /\ expAnswer.body.json = "list"

\* export_posts returned True; it returned False after a timeout
C21_Succeeded == expReturn = "True" /\ expAnswer.body.success = "true"
C21_TimedOut == expReturn = "False" /\ expAnswer.kind = "Timeout"

(***************************************************************************)
(* SpecInit: a crawler object is constructed from the environment, and     *)
(* crawl is called on it if the constructor returned.                      *)
(***************************************************************************)
\* os.getenv: the variable is unset, set to the empty string, or set
EnvValues == {None, "", "secret"}

\* a mutation: the constructor refuses only when both are missing
RedditRefusesBoth(username, password) == ~Truthy(username) /\ ~Truthy(password)

\* RedditCrawler.__init__: if not self.username or not self.password
RedditRefuses(username, password) == ~Truthy(username) \/ ~Truthy(password)

RedditInit ==
    /\ newCrawler = "reddit"
    /\ constructed = "none"
    /\ constructed' = IF RedditRefuses(envUsername, envPassword) THEN "ValueError"
                      ELSE "ok"
    /\ UNCHANGED <<newCrawler, envUsername, envPassword, storedSession, crawlStarted,
                   varsParse, varsSave, varsCollect, varsCrawl, varsLoop, varsExport, varsInter>>

\* ThreadsCrawler / LinkedInCrawler / XCrawler.__init__ read the credentials
\* and do not test them; _attempt_login asks for what is missing
LoginCrawlerInit ==
    /\ newCrawler \in LoginCrawlers
    /\ constructed = "none"
    /\ constructed' = "ok"
    /\ UNCHANGED <<newCrawler, envUsername, envPassword, storedSession, crawlStarted,
                   varsParse, varsSave, varsCollect, varsCrawl, varsLoop, varsExport, varsInter>>

\* crawl is called on the object the constructor returned
StartCrawl ==
    /\ constructed = "ok"
    /\ ~crawlStarted
    /\ crawlStarted' = TRUE
    /\ UNCHANGED <<newCrawler, envUsername, envPassword, storedSession, constructed,
                   varsParse, varsSave, varsCollect, varsCrawl, varsLoop, varsExport, varsInter>>

InitInit ==
    /\ newCrawler \in SessionCrawlers
    /\ envUsername \in EnvValues
    /\ envPassword \in EnvValues
    /\ storedSession \in BOOLEAN
    /\ constructed = "none"
    /\ crawlStarted = FALSE
    /\ IdleParse
    /\ IdleSave
    /\ IdleCollect
    /\ IdleCrawl
    /\ IdleLoop
    /\ IdleExport
    /\ IdleInter

NextInit ==
    \/ RedditInit
    \/ LoginCrawlerInit
    \/ StartCrawl

SpecInit == InitInit /\ [][NextInit]_vars

BothSet == envUsername \notin {None, ""} /\ envPassword \notin {None, ""}

\* C22: RedditCrawler can be constructed only when both REDDIT_USERNAME and
\* REDDIT_PASSWORD are set: if either is missing, construction raises
\* ValueError before any crawl starts, even when a stored session file exists.
C22_RedditNeedsCredentials ==
    newCrawler = "reddit" =>
        /\ constructed = "ok" => BothSet
        /\ (constructed # "none" /\ ~BothSet) => constructed = "ValueError"
        /\ crawlStarted => BothSet

\* with a stored session and the password missing, the constructor raised
C22_Witness ==
    /\ newCrawler = "reddit"
    /\ storedSession
    /\ envUsername = "secret"
    /\ envPassword = None
    /\ constructed = "ValueError"
    /\ ~crawlStarted

\* a Reddit crawl started with both set; a Threads crawl started with neither
C22_RedditStarted == newCrawler = "reddit" /\ crawlStarted
C22_ThreadsWithout ==
    newCrawler = "threads" /\ crawlStarted /\ envUsername = None /\ envPassword = None

(***************************************************************************)
(* SpecCount: the count parsers of XCrawler and ThreadsCrawler, called     *)
(* once on the text of a button: a number, plain or with thousands         *)
(* separators or with a decimal part, followed by a unit or by words.      *)
(***************************************************************************)
StartsAt(s, i, lit) == i + Len(lit) - 1 <= Len(s) /\ SubSeq(s, i, i + Len(lit) - 1) = lit

\* the index after the run of whitespace that starts at i (\s*)
RECURSIVE SkipSpace(_, _)
SkipSpace(s, i) == IF i <= Len(s) /\ s[i] \in Whitespace THEN SkipSpace(s, i + 1) ELSE i

\* how many groups ",ddd" follow index e, one after the other
RECURSIVE CommaRun(_, _)
CommaRun(s, e) ==
    IF e + 4 <= Len(s) /\ s[e + 1] = ","
       /\ IsDigit(s[e + 2]) /\ IsDigit(s[e + 3]) /\ IsDigit(s[e + 4])
    THEN 1 + CommaRun(s, e + 4) ELSE 0

\* (\d{1,3}(?:,\d{3})*) from index i, followed by \s* and the literal: the
\* ends of the group that let the pattern match, as <<d, k>> for d leading
\* digits and k comma groups, k at least least
GroupMatches(s, i, least, lit) ==
    {dk \in (1..3) \X (0..(Len(s) \div 4)) :
        /\ i + dk[1] - 1 <= Len(s)
        /\ \A j \in i..(i + dk[1] - 1) : IsDigit(s[j])
        /\ dk[2] >= least
        /\ dk[2] <= CommaRun(s, i + dk[1] - 1)
        /\ StartsAt(s, SkipSpace(s, i + dk[1] + 4 * dk[2]), lit)}

\* the match the regex engine finds first from index i: the digits are
\* greedy, then the comma groups are
GroupFirst(s, i, least, lit) ==
    CHOOSE dk \in GroupMatches(s, i, least, lit) :
        \A other \in GroupMatches(s, i, least, lit) :
            \/ dk[1] > other[1]
            \/ (dk[1] = other[1] /\ dk[2] >= other[2])

\* re.search of the pattern: group(1) of the leftmost match, or NoMatch
GroupSearch(s, least, lit) ==
    LET starts == {i \in 1..Len(s) : GroupMatches(s, i, least, lit) # {}}
    IN  IF starts = {} THEN NoMatch
        ELSE LET i  == CHOOSE x \in starts : \A y \in starts : x <= y
                 dk == GroupFirst(s, i, least, lit)
             IN  [found |-> TRUE, value |-> SubSeq(s, i, i + dk[1] + 4 * dk[2] - 1)]

\* interaction_type[:-1]
DropLast(s) == SubSeq(s, 1, Len(s) - 1)

\* XCrawler._extract_count_from_aria_label
extract_count_from_aria_label(aria_label, interaction_type) ==
    IF aria_label = <<>> THEN BigZero
    ELSE
    LET t  == Lower(aria_label)
        m1 == GroupSearch(t, 0, interaction_type)
        m2 == GroupSearch(t, 0, DropLast(interaction_type))
        m3 == GroupSearch(t, 0, <<>>)
        m  == IF m1.found THEN m1 ELSE IF m2.found THEN m2 ELSE m3
    IN  IF m.found THEN BigOf(DigitsToInt(RemoveChar(m.value, ","))) ELSE BigZero

\* (\d+(?:\.\d+)?)\s*[units] from index i: the end of the group, 0 when
\* there is no match.  The digits are greedy and a shorter run is followed
\* by a digit, so only the whole runs can be followed by the unit.
UnitMatchEnd(s, i, units) ==
    IF ~IsDigit(s[i]) THEN 0
    ELSE
    LET a    == DigitRunEnd(s, i)
        frac == a + 2 <= Len(s) /\ s[a + 1] = "." /\ IsDigit(s[a + 2])
        b    == IF frac THEN DigitRunEnd(s, a + 2) ELSE a
        unit(e) == SkipSpace(s, e + 1) <= Len(s) /\ s[SkipSpace(s, e + 1)] \in units
    IN  IF frac /\ unit(b) THEN b
        ELSE IF unit(a) THEN a
        ELSE 0
UnitSearch(s, units) ==
    LET starts == {i \in 1..Len(s) : UnitMatchEnd(s, i, units) # 0}
    IN  IF starts = {} THEN NoMatch
        ELSE LET i == CHOOSE x \in starts : \A y \in starts : x <= y
             IN  [found |-> TRUE, value |-> SubSeq(s, i, UnitMatchEnd(s, i, units))]

\* (\d+): the first run of digits
DigitsSearch(s) ==
    IF ~ \E i \in 1..Len(s) : IsDigit(s[i]) THEN NoMatch
    ELSE LET i == CHOOSE x \in 1..Len(s) :
                      IsDigit(s[x]) /\ \A y \in 1..(x - 1) : ~IsDigit(s[y])
         IN  [found |-> TRUE, value |-> SubSeq(s, i, DigitRunEnd(s, i))]

\* "M" in text or "m" in text: the unit is looked for in the whole text
x_unit_in_text(s, unit) == Contains(s, unit) \/ Contains(s, LowerChar(unit))

\* XCrawler._parse_interaction_count
x_parse_interaction_count(s) ==
    LET m1 == UnitSearch(s, {"M", "m"})
        m2 == UnitSearch(s, {"K", "k"})
        m3 == GroupSearch(s, 1, <<>>)
        m4 == DigitsSearch(s)
        m  == IF m1.found THEN m1 ELSE IF m2.found THEN m2
              ELSE IF m3.found THEN m3 ELSE m4
    IN  IF ~m.found THEN BigZero
        ELSE LET number == FloatOfString(RemoveChar(m.value, ","))
             IN  IF x_unit_in_text(s, "M") THEN IntOfFloat(FloatTimes1000000(number))
                 ELSE IF x_unit_in_text(s, "K") THEN IntOfFloat(FloatTimes1000(number))
                 ELSE IntOfFloat(number)

FloatTimes1000000000(x) ==
    FloatRound(MulSmall(MulSmall(MulSmall(x.m, 1000), 1000), 1000), x.k)

EndsWith(s, ch) == s # <<>> /\ s[Len(s)] = ch

\* count_str.endswith("K")
threads_endswith(s, ch) == EndsWith(s, ch)

\* ThreadsCrawler._parse_interaction_count
threads_parse_interaction_count(count_str) ==
    LET s == Strip(count_str)
    IN  IF (s # <<>> /\ \A i \in 1..Len(s) : IsDigit(s[i])) THEN BigOf(DigitsToInt(s))
        ELSE IF threads_endswith(s, "K")
        THEN IF FloatSyntaxOK(DropLast(s))
             THEN IntOfFloat(FloatTimes1000(FloatOfString(DropLast(s)))) ELSE BigZero
        ELSE IF threads_endswith(s, "M")
        THEN IF FloatSyntaxOK(DropLast(s))
             THEN IntOfFloat(FloatTimes1000000(FloatOfString(DropLast(s)))) ELSE BigZero
        ELSE IF threads_endswith(s, "B")
        THEN IF FloatSyntaxOK(DropLast(s))
             THEN IntOfFloat(FloatTimes1000000000(FloatOfString(DropLast(s)))) ELSE BigZero
        ELSE LET numbers == DigitsSearch(s)
             IN  IF numbers.found THEN BigOf(DigitsToInt(numbers.value)) ELSE BigZero

\* str(n)
RECURSIVE Plain(_)
Plain(n) == IF n < 10 THEN <<Digits[n + 1]>> ELSE Plain(n \div 10) \o <<Digits[(n % 10) + 1]>>

\* n written with thousands separators, as the sites write it
RECURSIVE Separated(_)
Separated(n) ==
    IF n < 1000 THEN Plain(n)
    ELSE Separated(n \div 1000) \o <<",">>
         \o <<Digits[((n \div 100) % 10) + 1], Digits[((n \div 10) % 10) + 1],
              Digits[(n % 10) + 1]>>

\* the counts the buttons show
Counts == {0, 2, 3, 12, 683, 1000, 8683, 1234567}

\* numbers with a decimal part, as <<digits without the point, decimals>>
Decimals == {<<17, 1>>, <<41, 1>>}
Decimal(d) == Plain(d[1] \div 10) \o <<".">> \o Plain(d[1] % 10)

\* what follows the number: nothing, a unit, or the words of a label
AriaTail(interaction_type) ==
    CASE interaction_type = <<"r","e","p","l","y">> ->
            <<" ","R","e","p","l","i","e","s","."," ","R","e","p","l","y">>
      [] interaction_type = <<"r","e","p","o","s","t">> ->
            <<" ","r","e","p","o","s","t","s","."," ","R","e","p","o","s","t">>
      [] interaction_type = <<"l","i","k","e">> ->
            <<" ","L","i","k","e","s","."," ","L","i","k","e">>
      [] interaction_type = <<"v","i","e","w">> ->
            <<" ","v","i","e","w","s","."," ","V","i","e","w">>
InteractionTypes ==
    {<<"r","e","p","l","y">>, <<"r","e","p","o","s","t">>, <<"l","i","k","e">>,
     <<"v","i","e","w">>}
Units == {"k", "K", "m", "M", "b", "B"}
WordTails == {<<" ","l","i","k","e","s">>, <<" ","c","o","m","m","e","n","t","s">>,
              <<" ","r","e","p","l","i","e","s">>}
CountTails ==
    {<<>>} \cup {<<u>> : u \in Units} \cup WordTails
    \cup {AriaTail(t) : t \in InteractionTypes}
CountHeads ==
    {<<>>} \cup {Plain(n) : n \in Counts} \cup {Separated(n) : n \in Counts}
    \cup {Decimal(d) : d \in Decimals}
CountTexts == {h \o t : h \in CountHeads, t \in CountTails}

CallExtractCountFromAriaLabel ==
    /\ parsed = NoCall
    /\ \E interaction_type \in InteractionTypes :
          parsed' = [fn |-> "_extract_count_from_aria_label",
                     type |-> interaction_type,
                     value |-> extract_count_from_aria_label(text, interaction_type)]
    /\ UNCHANGED <<text, varsSave, varsCollect, varsCrawl, varsLoop, varsExport, varsInit, varsInter>>

CallXParseInteractionCount ==
    /\ parsed = NoCall
    /\ parsed' = [fn |-> "XCrawler._parse_interaction_count",
                  value |-> x_parse_interaction_count(text)]
    /\ UNCHANGED <<text, varsSave, varsCollect, varsCrawl, varsLoop, varsExport, varsInit, varsInter>>

CallThreadsParseInteractionCount ==
    /\ parsed = NoCall
    /\ parsed' = [fn |-> "ThreadsCrawler._parse_interaction_count",
                  value |-> threads_parse_interaction_count(text)]
    /\ UNCHANGED <<text, varsSave, varsCollect, varsCrawl, varsLoop, varsExport, varsInit, varsInter>>

InitCount ==
    text \in CountTexts /\ parsed = NoCall /\ IdleSave /\ IdleCollect /\ IdleCrawl
    /\ IdleLoop
    /\ IdleExport
    /\ IdleInit
    /\ IdleInter

NextCount ==
    \/ CallExtractCountFromAriaLabel
    \/ CallXParseInteractionCount
    \/ CallThreadsParseInteractionCount

SpecCount == InitCount /\ [][NextCount]_vars

\* the text is the count n, plain or separated, followed by the tail
ShowsCount(n, tail) == text = Plain(n) \o tail \/ text = Separated(n) \o tail

\* n * 10^e as the integer the parsers return
BigTimesPow10(n, e) == MulPow10(BigOf(n), e)

\* C23: for a label of the form "<N> Replies. Reply" (likewise reposts, likes
\* and views) _extract_count_from_aria_label returns N
C23_AriaLabelCount ==
    parsed.fn = "_extract_count_from_aria_label" =>
        \A n \in Counts :
            ShowsCount(n, AriaTail(parsed.type)) => parsed.value = BigOf(n)

\* the count is N when the label writes N with separators or N is below 1000
C23_SeparatedCount ==
    parsed.fn = "_extract_count_from_aria_label" =>
        \A n \in Counts :
            (text = Separated(n) \o AriaTail(parsed.type)) => parsed.value = BigOf(n)

\* "8683 Replies. Reply" read for replies gives 683
C23_LeadingDigitLost ==
    /\ parsed.fn = "_extract_count_from_aria_label"
    /\ parsed.type = <<"r","e","p","l","y">>
    /\ text = Plain(8683) \o AriaTail(parsed.type)
    /\ parsed.value = BigOf(683)

\* C24: XCrawler._parse_interaction_count scales a number by 1000 or 1000000
\* only when a K or an M follows it, returns the number itself when words
\* follow it, and returns 0 when the text has no digit
C24_ScaledOnlyByUnit ==
    parsed.fn = "XCrawler._parse_interaction_count" =>
        /\ HasNoDigit(text) => parsed.value = BigZero
        /\ \A n \in Counts :
              /\ \A tail \in WordTails \cup {<<>>} :
                    ShowsCount(n, tail) => parsed.value = BigOf(n)
              /\ \A u \in {"k", "K"} :
                    text = Plain(n) \o <<u>> => parsed.value = BigTimesPow10(n, 3)
              /\ \A u \in {"m", "M"} :
                    text = Plain(n) \o <<u>> => parsed.value = BigTimesPow10(n, 6)

\* what holds: the unit forms, the bare numbers and the texts without digits
C24_UnitForms ==
    parsed.fn = "XCrawler._parse_interaction_count" =>
        /\ HasNoDigit(text) => parsed.value = BigZero
        /\ \A n \in Counts :
              /\ ShowsCount(n, <<>>) => parsed.value = BigOf(n)
              /\ \A u \in {"k", "K"} :
                    text = Plain(n) \o <<u>> => parsed.value = BigTimesPow10(n, 3)
              /\ \A u \in {"m", "M"} :
                    text = Plain(n) \o <<u>> => parsed.value = BigTimesPow10(n, 6)

\* "12 likes" gives 12000 and "3 comments" gives 3000000
C24_WordReadAsUnit ==
    /\ parsed.fn = "XCrawler._parse_interaction_count"
    /\ \/ text = Plain(12) \o <<" ","l","i","k","e","s">> /\ parsed.value = BigOf(12000)
       \/ text = Plain(3) \o <<" ","c","o","m","m","e","n","t","s">>
          /\ parsed.value = BigOf(3000000)

ThreadsScale(u) ==
    CASE u \in {"k", "K"} -> 3 [] u \in {"m", "M"} -> 6 [] u \in {"b", "B"} -> 9

\* C25: ThreadsCrawler._parse_interaction_count reads a number followed by
\* K, M or B in either letter case as the number times 1000, 1000000 or
\* 1000000000, a run of digits as that integer, and a text without a number
\* as 0
C25_ThreadsSuffixes ==
    parsed.fn = "ThreadsCrawler._parse_interaction_count" =>
        /\ HasNoDigit(text) => parsed.value = BigZero
        /\ \A n \in Counts :
              /\ text = Plain(n) => parsed.value = BigOf(n)
              /\ \A u \in Units :
                    text = Plain(n) \o <<u>> => parsed.value = BigTimesPow10(n, ThreadsScale(u))
        /\ \A d \in Decimals : \A u \in Units :
              text = Decimal(d) \o <<u>>
                 => parsed.value = BigTimesPow10(d[1], ThreadsScale(u) - d[2])

\* what holds: whole numbers with an upper-case suffix, digits, no number
C25_UpperCaseWhole ==
    parsed.fn = "ThreadsCrawler._parse_interaction_count" =>
        /\ HasNoDigit(text) => parsed.value = BigZero
        /\ \A n \in Counts :
              /\ text = Plain(n) => parsed.value = BigOf(n)
              /\ \A u \in {"K", "M", "B"} :
                    text = Plain(n) \o <<u>> => parsed.value = BigTimesPow10(n, ThreadsScale(u))

\* "1.7k" gives 1
C25_LowerCaseSuffixIgnored ==
    /\ parsed.fn = "ThreadsCrawler._parse_interaction_count"
    /\ text = Decimal(<<17, 1>>) \o <<"k">>
    /\ parsed.value = BigOf(1)

\* "4.1M" gives 4099999
C25_DecimalTruncated ==
    /\ parsed.fn = "ThreadsCrawler._parse_interaction_count"
    /\ text = Decimal(<<41, 1>>) \o <<"M">>
    /\ parsed.value = BigOf(4099999)

(***************************************************************************)
(* C27: the duplicate test of the progressive loops on records without URL *)
(***************************************************************************)
UrlDedupCrawlers == {"linkedin", "x", "reddit"}

\* what the extractors can hand to the duplicate test of the crawler
DedupCandidates(c) ==
    IF c = "reddit"
    THEN {RedditExtract(selector, e) : selector \in RedditSelectors, e \in RedditElements}
         \ {NoData}
    ELSE PostData(c)

DiffersFromAll(collected, post_data) ==
    \A i \in 1..Len(collected) :
        collected[i].author # post_data.author \/ collected[i].content # post_data.content

Urlless(collected) == {i \in 1..Len(collected) : collected[i].url = None}

\* C27: in the LinkedIn, X and Reddit loops a candidate without URL that
\* differs in author or in content from every collected record is not taken
\* for a duplicate, whatever the URLs of the collected records
C27_MissingUrlNotDuplicate ==
    (colCrawler \in UrlDedupCrawlers /\ colPc # "done") =>
        \A post_data \in DedupCandidates(colCrawler) :
            (post_data.url = None /\ DiffersFromAll(colPosts, post_data))
                => ~is_duplicate(colPosts, post_data)

\* a record without URL has been collected, and a candidate without URL with
\* another author or other content is a duplicate for the test
C27_SecondUrllessDropped ==
    /\ colCrawler \in UrlDedupCrawlers
    /\ colPc = "element"
    /\ Len(colPosts) < target_count
    /\ Urlless(colPosts) # {}
    /\ \E post_data \in DedupCandidates(colCrawler) :
          /\ post_data.url = None
          /\ DiffersFromAll(colPosts, post_data)
          /\ is_duplicate(colPosts, post_data)

\* the three loops never hold two records without URL
C27_OneUrllessAtMost ==
    colCrawler \in UrlDedupCrawlers => Cardinality(Urlless(colPosts)) <= 1

\* with URLs on both, records that differ are both collected
C27_TwoWithUrls ==
    /\ colCrawler \in UrlDedupCrawlers
    /\ Len(colPosts) = 2
    /\ Urlless(colPosts) = {}

(***************************************************************************)
(* SpecInteract: the interaction extractors of LinkedInCrawler, XCrawler   *)
(* and GeekNewsCrawler.  An extractor starts from a dict of None counts    *)
(* and reads the post's buttons one by one; the Post is built from the     *)
(* dict.  The texts are ASCII, so the Hangul words the extractors look for *)
(* are written in romanised form (daetgeul, chucheon, peogam, peogagi).    *)
(***************************************************************************)
MaxElements == 2

InteractCrawlers == {"linkedin", "x", "geeknews"}
CountFields == {"likes", "comments", "shares", "views"}

\* count > 0, for the non-negative integers the parsers return
BigPositive(count) == \E i \in 1..Len(count) : count[i] # 0

\* word in text
HasWord(s, word) == \E i \in 1..Len(s) : StartsAt(s, i, word)

\* the dict each extractor starts from
X_interactions == [likes |-> NoInt, comments |-> NoInt, shares |-> NoInt, views |-> NoInt]
InitialInteractions(c) == IF c = "x" THEN X_interactions ELSE NoInteractions

\* not any(interactions.values()) is the test of the callers
AnyInteraction(d) == \E k \in DOMAIN d : d[k] # NoInt /\ BigPositive(d[k])

\* a mutation: the count is stored whatever its value
store_count_unchecked(d, key, count) == [d EXCEPT ![key] = count]

\* if count > 0: interactions[key] = count
store_count(d, key, count) == IF BigPositive(count) THEN [d EXCEPT ![key] = count] ELSE d

\* the texts of the buttons
InterHeads == {Plain(0), Plain(12)}
InterTails ==
    {<<>>, <<" ","l","i","k","e","s">>, <<" ","c","o","m","m","e","n","t","s">>,
     <<" ","r","e","p","o","s","t","s">>, <<" ","p","e","o","g","a","m">>}
InterTexts == {<<>>} \cup {h \o t : h \in InterHeads, t \in InterTails}
XAriaLabels ==
    {<<>>} \cup {Plain(n) \o AriaTail(t) : n \in {0, 12, 1000}, t \in InteractionTypes}
XElemTexts == {<<>>, Plain(0), Plain(12), <<"1",".","7","K">>}

\* ---- XCrawler._extract_interactions
\* the branch an element falls in: <<interaction_type, key>>, <<>> for none
XBranch(full_text) ==
    IF HasWord(full_text, <<"r","e","p","l","y">>)
       \/ HasWord(full_text, <<"r","e","p","l","i","e","s">>)
    THEN <<<<"r","e","p","l","y">>, "comments">>
    ELSE IF HasWord(full_text, <<"r","e","p","o","s","t">>)
            \/ HasWord(full_text, <<"r","e","t","w","e","e","t">>)
    THEN <<<<"r","e","p","o","s","t">>, "shares">>
    ELSE IF HasWord(full_text, <<"l","i","k","e">>)
    THEN <<<<"l","i","k","e">>, "likes">>
    ELSE IF HasWord(full_text, <<"v","i","e","w">>)
            \/ HasWord(full_text, <<"a","n","a","l","y","t","i","c","s">>)
    THEN <<<<"v","i","e","w">>, "views">>
    ELSE <<>>

XCount(aria_label, elem_text, interaction_type) ==
    LET count == extract_count_from_aria_label(aria_label, interaction_type)
    IN  IF ~BigPositive(count) THEN x_parse_interaction_count(elem_text) ELSE count

XElementRead ==
    /\ interCrawler = "x"
    /\ interPhase = "buttons"
    /\ interLeft > 0
    /\ \E aria_label \in XAriaLabels, elem_text \in XElemTexts :
          LET full_text == Lower(aria_label \o <<" ">> \o elem_text)
              branch    == XBranch(full_text)
          IN  IF branch = <<>>
              THEN UNCHANGED <<interactions, interZero>>
              ELSE LET count == XCount(aria_label, elem_text, branch[1])
                   IN  /\ interactions' = store_count(interactions, branch[2], count)
                       /\ interZero' = (interZero \/ ~BigPositive(count))
    /\ interLeft' = interLeft - 1
    /\ UNCHANGED <<interCrawler, interPhase,
                   varsParse, varsSave, varsCollect, varsCrawl, varsLoop, varsExport,
                   varsInit>>

\* the data-testid selectors of _extract_interactions_fallback, in order
TestidKeys == <<"comments", "shares", "likes", "views">>

XAfterButtons ==
    /\ interCrawler = "x"
    /\ interPhase = "buttons"
    /\ interLeft = 0
    /\ IF ~AnyInteraction(interactions)
       THEN interPhase' = "fallback" /\ interLeft' = Len(TestidKeys)
       ELSE interPhase' = "done" /\ interLeft' = 0
    /\ UNCHANGED <<interCrawler, interactions, interZero,
                   varsParse, varsSave, varsCollect, varsCrawl, varsLoop, varsExport,
                   varsInit>>

XFallbackSelector ==
    /\ interCrawler = "x"
    /\ interPhase = "fallback"
    /\ interLeft > 0
    /\ \E found \in BOOLEAN, parent_text \in XElemTexts :
          IF found
          THEN LET count == x_parse_interaction_count(parent_text)
                   key   == TestidKeys[Len(TestidKeys) - interLeft + 1]
               IN  /\ interactions' = store_count(interactions, key, count)
                   /\ interZero' = (interZero \/ ~BigPositive(count))
          ELSE UNCHANGED <<interactions, interZero>>
    /\ interLeft' = interLeft - 1
    /\ interPhase' = IF interLeft = 1 THEN "done" ELSE "fallback"
    /\ UNCHANGED <<interCrawler,
                   varsParse, varsSave, varsCollect, varsCrawl, varsLoop, varsExport,
                   varsInit>>

\* ---- LinkedInCrawler._extract_interactions_progressive
\* one button of .social-details-social-counts: nothing is stored for an
\* absent button or an empty text
SocialCount(d, key, button_text) ==
    IF button_text = <<>> THEN d
    ELSE store_count(d, key, extract_numbers_from_text(button_text))

LinkedinSocialCounts ==
    /\ interCrawler = "linkedin"
    /\ interPhase = "social"
    /\ \E social_counts \in BOOLEAN,
          reactions_text \in InterTexts, comments_text \in InterTexts,
          shares_text \in InterTexts :
          LET d1 == SocialCount(interactions, "likes", reactions_text)
              d2 == SocialCount(d1, "comments", comments_text)
              d3 == IF HasWord(shares_text, <<"p","e","o","g","a","m">>)
                    THEN SocialCount(d2, "shares", shares_text) ELSE d2
              d  == IF social_counts THEN d3 ELSE interactions
              zero(t) == t # <<>> /\ ~BigPositive(extract_numbers_from_text(t))
          IN  /\ interactions' = d
              /\ interZero' = (interZero
                               \/ (social_counts
                                   /\ (zero(reactions_text) \/ zero(comments_text)
                                       \/ (HasWord(shares_text, <<"p","e","o","g","a","m">>)
                                           /\ zero(shares_text)))))
              /\ IF ~AnyInteraction(d)
                 THEN interPhase' = "buttons" /\ interLeft' \in 0..MaxElements
                 ELSE interPhase' = "done" /\ interLeft' = 0
    /\ UNCHANGED <<interCrawler,
                   varsParse, varsSave, varsCollect, varsCrawl, varsLoop, varsExport,
                   varsInit>>

\* the key an action button's text stands for, "" for none
LinkedinBranch(button_text) ==
    LET button_text_lower == Lower(button_text)
    IN  IF \/ HasWord(button_text_lower, <<"l","i","k","e">>)
           \/ HasWord(button_text_lower, <<"c","h","u","c","h","e","o","n">>)
           \/ HasWord(button_text_lower, <<"r","e","a","c","t","i","o","n">>)
        THEN "likes"
        ELSE IF \/ HasWord(button_text, <<"d","a","e","t","g","e","u","l">>)
                \/ HasWord(button_text_lower, <<"c","o","m","m","e","n","t">>)
        THEN "comments"
        ELSE IF \/ HasWord(button_text_lower, <<"s","h","a","r","e">>)
                \/ HasWord(button_text_lower, <<"p","e","o","g","a","g","i">>)
                \/ HasWord(button_text_lower, <<"r","e","p","o","s","t">>)
        THEN "shares"
        ELSE ""

LinkedinButtonRead ==
    /\ interCrawler = "linkedin"
    /\ interPhase = "buttons"
    /\ interLeft > 0
    /\ \E button_text \in InterTexts :
          IF button_text = <<>> \/ LinkedinBranch(button_text) = ""
          THEN UNCHANGED <<interactions, interZero>>
          ELSE LET count == extract_numbers_from_text(button_text)
               IN  /\ interactions' = store_count(interactions, LinkedinBranch(button_text), count)
                   /\ interZero' = (interZero \/ ~BigPositive(count))
    /\ interLeft' = interLeft - 1
    /\ UNCHANGED <<interCrawler, interPhase,
                   varsParse, varsSave, varsCollect, varsCrawl, varsLoop, varsExport,
                   varsInit>>

LinkedinAfterButtons ==
    /\ interCrawler = "linkedin"
    /\ interPhase = "buttons"
    /\ interLeft = 0
    /\ interPhase' = "done"
    /\ UNCHANGED <<interCrawler, interactions, interLeft, interZero,
                   varsParse, varsSave, varsCollect, varsCrawl, varsLoop, varsExport,
                   varsInit>>

\* ---- GeekNewsCrawler._extract_interactions
\* one element of a loop that stores the first positive count and breaks
GeekNewsRead(phase, key) ==
    /\ interCrawler = "geeknews"
    /\ interPhase = phase
    /\ interLeft > 0
    /\ \E elem_text \in InterTexts :
          LET count == extract_numbers_from_text(elem_text)
          IN  /\ interactions' = store_count(interactions, key, count)
              /\ interZero' = (interZero \/ ~BigPositive(count))
              /\ interLeft' = IF BigPositive(count) THEN 0 ELSE interLeft - 1
    /\ UNCHANGED <<interCrawler, interPhase,
                   varsParse, varsSave, varsCollect, varsCrawl, varsLoop, varsExport,
                   varsInit>>

GeekNewsCommentRead == GeekNewsRead("comments", "comments")
GeekNewsScoreRead == GeekNewsRead("score", "likes")

GeekNewsAfterComments ==
    /\ interCrawler = "geeknews"
    /\ interPhase = "comments"
    /\ interLeft = 0
    /\ interPhase' = "score"
    /\ interLeft' \in 0..MaxElements
    /\ UNCHANGED <<interCrawler, interactions, interZero,
                   varsParse, varsSave, varsCollect, varsCrawl, varsLoop, varsExport,
                   varsInit>>

GeekNewsAfterScores ==
    /\ interCrawler = "geeknews"
    /\ interPhase = "score"
    /\ interLeft = 0
    /\ interPhase' = "done"
    /\ UNCHANGED <<interCrawler, interactions, interLeft, interZero,
                   varsParse, varsSave, varsCollect, varsCrawl, varsLoop, varsExport,
                   varsInit>>

InitInteract ==
    /\ interCrawler \in InteractCrawlers
    /\ interactions = InitialInteractions(interCrawler)
    /\ interPhase = (CASE interCrawler = "linkedin" -> "social"
                       [] interCrawler = "x" -> "buttons"
                       [] interCrawler = "geeknews" -> "comments")
    /\ interLeft \in (IF interCrawler = "linkedin" THEN {0} ELSE 0..MaxElements)
    /\ interZero = FALSE
    /\ IdleParse
    /\ IdleSave
    /\ IdleCollect
    /\ IdleCrawl
    /\ IdleLoop
    /\ IdleExport
    /\ IdleInit

NextInteract ==
    \/ XElementRead \/ XAfterButtons \/ XFallbackSelector
    \/ LinkedinSocialCounts \/ LinkedinButtonRead \/ LinkedinAfterButtons
    \/ GeekNewsCommentRead \/ GeekNewsAfterComments
    \/ GeekNewsScoreRead \/ GeekNewsAfterScores

SpecInteract == InitInteract /\ [][NextInteract]_vars

\* Post(platform=..., **post_data): a count the dict lacks is None
PostCount(k) == IF k \in DOMAIN interactions THEN interactions[k] ELSE NoInt

\* C26: in the records of the LinkedIn, X and GeekNews crawlers each of
\* likes, comments, shares and views is None or a strictly positive integer
C26_CountsNoneOrPositive ==
    interCrawler \in InteractCrawlers =>
        \A k \in CountFields : PostCount(k) = NoInt \/ BigPositive(PostCount(k))

\* an extractor has returned after it parsed a count of 0 from one element
\* and stored the count of another
C26_Witness ==
    /\ interCrawler \in InteractCrawlers
    /\ interPhase = "done"
    /\ interZero
    /\ \E k \in CountFields : PostCount(k) # NoInt
    /\ \E k \in CountFields : PostCount(k) = NoInt

====
